---- MODULE Spec2Model ----
(***************************************************************************)
(* The file-analysis pipeline of the metadata viewer:                      *)
(* analyzeFileEnhanced (src/src/lib/enhanced-metadata-extractor.ts) and    *)
(* the extractors it dispatches to.                                        *)
(*                                                                         *)
(* JavaScript strings are sequences of one-character strings, so that      *)
(* startsWith, split, toLowerCase and includes are computed, not assumed.  *)
(* An optional value (T | undefined) is a set with at most one element:    *)
(* undefined is {} and a present value v is {v}; an empty JavaScript array *)
(* that is present is therefore {<<>>}, which differs from undefined.      *)
(***************************************************************************)
EXTENDS Integers, Sequences, FiniteSets, TLC

\* ------------------------------------------------------------ bounds ----

\* analyzeFileEnhanced is called at most MaxRuns times on the same file.
MaxRuns == 2

\* ------------------------------------------------- JavaScript values ----

undefined == {}

Some(v) == {v}

IsDefined(o) == o # {}

\* The value of a present optional.
Get(o) == CHOOSE v \in o : TRUE

\* a || b on optional values whose present values are truthy.
OrElse(o, d) == IF IsDefined(o) THEN Get(o) ELSE d

LowerAlpha ==
    <<"a", "b", "c", "d", "e", "f", "g", "h", "i", "j", "k", "l", "m",
      "n", "o", "p", "q", "r", "s", "t", "u", "v", "w", "x", "y", "z">>

UpperAlpha ==
    <<"A", "B", "C", "D", "E", "F", "G", "H", "I", "J", "K", "L", "M",
      "N", "O", "P", "Q", "R", "S", "T", "U", "V", "W", "X", "Y", "Z">>

HexDigits ==
    <<"0", "1", "2", "3", "4", "5", "6", "7", "8", "9", "a", "b", "c", "d", "e", "f">>

IndexIn(alpha, c) ==
    IF \E i \in 1..Len(alpha) : alpha[i] = c
    THEN CHOOSE i \in 1..Len(alpha) : alpha[i] = c
    ELSE 0

\* String.prototype.toLowerCase
toLowerCase(s) ==
    [i \in 1..Len(s) |->
        IF IndexIn(UpperAlpha, s[i]) > 0 THEN LowerAlpha[IndexIn(UpperAlpha, s[i])] ELSE s[i]]

\* String.prototype.toUpperCase
toUpperCase(s) ==
    [i \in 1..Len(s) |->
        IF IndexIn(LowerAlpha, s[i]) > 0 THEN UpperAlpha[IndexIn(LowerAlpha, s[i])] ELSE s[i]]

\* String.prototype.startsWith
startsWith(s, prefix) ==
    /\ Len(s) >= Len(prefix)
    /\ SubSeq(s, 1, Len(prefix)) = prefix

\* String.prototype.split with a one-character separator: the array of the
\* pieces between the separators ("" gives [""], "a." gives ["a", ""]).
RECURSIVE split(_, _)
split(s, sep) ==
    IF \E i \in 1..Len(s) : s[i] = sep
    THEN LET i == CHOOSE k \in 1..Len(s) : s[k] = sep /\ \A j \in 1..(k - 1) : s[j] # sep
         IN  <<SubSeq(s, 1, i - 1)>> \o split(SubSeq(s, i + 1, Len(s)), sep)
    ELSE <<s>>

\* Array.prototype.includes
includes(arr, x) == \E i \in 1..Len(arr) : arr[i] = x

\* Array.prototype.join
RECURSIVE join(_, _)
join(arr, sep) ==
    IF Len(arr) = 0 THEN <<>>
    ELSE IF Len(arr) = 1 THEN arr[1]
    ELSE arr[1] \o sep \o join(Tail(arr), sep)

\* String.prototype.padStart(n, '0')
RECURSIVE padStart0(_, _)
padStart0(s, n) == IF Len(s) >= n THEN s ELSE padStart0(<<"0">> \o s, n)

\* Number.prototype.toString(16) of a natural number.
RECURSIVE toString16(_)
toString16(n) ==
    IF n < 16 THEN <<HexDigits[n + 1]>>
    ELSE toString16(n \div 16) \o <<HexDigits[(n % 16) + 1]>>

\* file.name.split('.').pop()?.toLowerCase() || ''
ExtensionOf(name) ==
    LET parts == split(name, ".")
    IN  toLowerCase(parts[Len(parts)])

\* ------------------------------------------------------ the classifier ----

ImagePrefix == <<"i", "m", "a", "g", "e", "/">>
VideoPrefix == <<"v", "i", "d", "e", "o", "/">>
AudioPrefix == <<"a", "u", "d", "i", "o", "/">>
TextPrefix == <<"t", "e", "x", "t", "/">>

documentExts ==
    << <<"p", "d", "f">>,
       <<"d", "o", "c">>,
       <<"d", "o", "c", "x">>,
       <<"t", "x", "t">>,
       <<"r", "t", "f">>,
       <<"o", "d", "t">>,
       <<"p", "a", "g", "e", "s">> >>

archiveExts ==
    << <<"z", "i", "p">>,
       <<"r", "a", "r">>,
       <<"7", "z">>,
       <<"t", "a", "r">>,
       <<"g", "z">>,
       <<"b", "z", "2">>,
       <<"x", "z">> >>

imageExts ==
    << <<"j", "p", "g">>,
       <<"j", "p", "e", "g">>,
       <<"p", "n", "g">>,
       <<"g", "i", "f">>,
       <<"b", "m", "p">>,
       <<"w", "e", "b", "p">>,
       <<"s", "v", "g">>,
       <<"t", "i", "f", "f">>,
       <<"i", "c", "o">> >>

videoExts ==
    << <<"m", "p", "4">>,
       <<"a", "v", "i">>,
       <<"m", "o", "v">>,
       <<"w", "m", "v">>,
       <<"f", "l", "v">>,
       <<"w", "e", "b", "m">>,
       <<"m", "k", "v">>,
       <<"m", "4", "v">> >>

audioExts ==
    << <<"m", "p", "3">>,
       <<"w", "a", "v">>,
       <<"f", "l", "a", "c">>,
       <<"a", "a", "c">>,
       <<"o", "g", "g">>,
       <<"m", "4", "a">>,
       <<"w", "m", "a">> >>

textExts ==
    << <<"t", "x", "t">>,
       <<"m", "d">>,
       <<"j", "s", "o", "n">>,
       <<"x", "m", "l">>,
       <<"h", "t", "m", "l">>,
       <<"c", "s", "s">>,
       <<"j", "s">>,
       <<"t", "s">>,
       <<"p", "y">>,
       <<"j", "a", "v", "a">>,
       <<"c", "p", "p">>,
       <<"c">>,
       <<"h">> >>

\* The lookup without the toLowerCase() call.
ClassifierExtensionCaseSensitive(filename) ==
    LET parts == split(filename, ".")
    IN  parts[Len(parts)]

\* The extension the classifier looks up: filename.split('.').pop()?.toLowerCase() || ''
ClassifierExtension(filename) == ExtensionOf(filename)

\* A fallback that consults the text table before the document table.
determineFileCategoryTextFirst(mimeType, filename) ==
    IF startsWith(mimeType, ImagePrefix) THEN "image"
    ELSE IF startsWith(mimeType, VideoPrefix) THEN "video"
    ELSE IF startsWith(mimeType, AudioPrefix) THEN "audio"
    ELSE IF startsWith(mimeType, TextPrefix) THEN "text"
    ELSE LET extension == ClassifierExtension(filename)
         IN  IF includes(textExts, extension) THEN "text"
             ELSE IF includes(documentExts, extension) THEN "document"
             ELSE IF includes(archiveExts, extension) THEN "archive"
             ELSE IF includes(imageExts, extension) THEN "image"
             ELSE IF includes(videoExts, extension) THEN "video"
             ELSE IF includes(audioExts, extension) THEN "audio"
             ELSE "other"

determineFileCategory(mimeType, filename) ==
    IF startsWith(mimeType, ImagePrefix) THEN "image"
    ELSE IF startsWith(mimeType, VideoPrefix) THEN "video"
    ELSE IF startsWith(mimeType, AudioPrefix) THEN "audio"
    ELSE IF startsWith(mimeType, TextPrefix) THEN "text"
    ELSE LET extension == ClassifierExtension(filename)
         IN  IF includes(documentExts, extension) THEN "document"
             ELSE IF includes(archiveExts, extension) THEN "archive"
             ELSE IF includes(imageExts, extension) THEN "image"
             ELSE IF includes(videoExts, extension) THEN "video"
             ELSE IF includes(audioExts, extension) THEN "audio"
             ELSE IF includes(textExts, extension) THEN "text"
             ELSE "other"

\* ------------------------------------------- checksum and raw header ----

\* The number of leading bytes extractRawHeader dumps by default.
RawHeaderLength == 64

\* byte.toString(16).padStart(2, '0').toUpperCase()
HexByte(byte) == toUpperCase(padStart0(toString16(byte), 2))

extractRawHeader(buffer) ==
    LET n == IF Len(buffer) < RawHeaderLength THEN Len(buffer) ELSE RawHeaderLength
        head == SubSeq(buffer, 1, n)
    IN  join([i \in 1..n |-> HexByte(head[i])], <<" ">>)

\* The fallback hash of calculateChecksum.  The 32-bit accumulator is kept as
\* two 16-bit halves <<hi, lo>>: ((hash << 5) - hash + byte) & 0xffffffff is
\* (31 * hash + byte) modulo 2^32.
RECURSIVE SimpleHash(_, _)
SimpleHash(bytes, hash) ==
    IF Len(bytes) = 0 THEN hash
    ELSE LET low == 31 * hash[2] + Head(bytes)
             high == 31 * hash[1] + (low \div 65536)
         IN  SimpleHash(Tail(bytes), <<high % 65536, low % 65536>>)

\* Math.abs of the signed 32-bit value held as <<hi, lo>>.
AbsInt32(hash) ==
    IF hash[1] < 32768 THEN hash
    ELSE IF hash[2] = 0 THEN <<65536 - hash[1], 0>>
    ELSE <<65535 - hash[1], 65536 - hash[2]>>

\* Math.abs(hash).toString(16).padStart(8, '0')
FallbackChecksum(buffer) ==
    LET mag == AbsInt32(SimpleHash(buffer, <<0, 0>>))
    IN  IF mag[1] = 0 THEN padStart0(toString16(mag[2]), 8)
        ELSE padStart0(toString16(mag[1]) \o padStart0(toString16(mag[2]), 4), 8)

\* calculateChecksum: the platform digest, or the fallback hash when it throws.
calculateChecksum(buffer, digest) ==
    IF digest.kind = "ok" THEN digest.hex ELSE FallbackChecksum(buffer)

\* -------------------------------------------------------------- inputs ----

\* File names offered to the pipeline: x.txt, s.FLAC, d.xyz123, d.pdf, p.jpg,
\* a.zip, c.mp4, n.md, README, "t." and mp3.
FileNames ==
    { <<"x", ".", "t", "x", "t">>,
      <<"s", ".", "F", "L", "A", "C">>,
      <<"d", ".", "x", "y", "z", "1", "2", "3">>,
      <<"d", ".", "p", "d", "f">>,
      <<"p", ".", "j", "p", "g">>,
      <<"a", ".", "z", "i", "p">>,
      <<"c", ".", "m", "p", "4">>,
      <<"n", ".", "m", "d">>,
      <<"R", "E", "A", "D", "M", "E">>,
      <<"t", ".">>,
      <<"m", "p", "3">> }

MimeTextPlain == <<"t", "e", "x", "t", "/", "p", "l", "a", "i", "n">>
MimeImageJpeg == <<"i", "m", "a", "g", "e", "/", "j", "p", "e", "g">>
MimeOctetStream ==
    <<"a", "p", "p", "l", "i", "c", "a", "t", "i", "o", "n", "/",
      "o", "c", "t", "e", "t", "-", "s", "t", "r", "e", "a", "m">>
MimePdf == <<"a", "p", "p", "l", "i", "c", "a", "t", "i", "o", "n", "/", "p", "d", "f">>
MimeAudioMpeg == <<"a", "u", "d", "i", "o", "/", "m", "p", "e", "g">>
MimeVideoMp4 == <<"v", "i", "d", "e", "o", "/", "m", "p", "4">>
MimeZip == <<"a", "p", "p", "l", "i", "c", "a", "t", "i", "o", "n", "/", "z", "i", "p">>

\* file.type as the browser declares it; the empty string when it knows none.
DeclaredTypes ==
    { <<>>, MimeTextPlain, MimeImageJpeg, MimeOctetStream, MimePdf, MimeAudioMpeg, MimeVideoMp4 }

\* "a b\nc"
TextBytes == <<97, 32, 98, 10, 99>>

\* FF D8, an APP0 segment holding JFIF 1.01 at 72x72 dots per inch, FF D9.
JpegBytes ==
    <<255, 216, 255, 224, 0, 16, 74, 70, 73, 70, 0, 1, 1, 1, 0, 72, 0, 72, 0, 0, 255, 217>>

Buffers == { <<>>, TextBytes, JpegBytes }

LastModifieds == { 1000 }

\* The File objects analyzeFileEnhanced is called with; file.size is the byte length.
Files ==
    { [name |-> n, type |-> t, bytes |-> b, size |-> Len(b), lastModified |-> m] :
        n \in FileNames, t \in DeclaredTypes, b \in Buffers, m \in LastModifieds }

\* Values a collaborator throws: an Error with a message, or a value that is no Error.
Thrown ==
    { [isError |-> TRUE, message |-> "collaborator failed"],
      [isError |-> FALSE, message |-> ""] }

Throws == { [kind |-> "throw", error |-> e] : e \in Thrown }

\* A parser that throws inside an extractor: the extractor discards the value.
ParserThrows == { [kind |-> "throw", error |-> [isError |-> TRUE, message |-> "parse failed"]] }

\* file.arrayBuffer()
ArrayBufferAnswers == { [kind |-> "ok"] } \cup Throws

\* crypto.subtle.digest('MD5', buffer): a digest, or a refusal of the algorithm.
DigestAnswers ==
    { [kind |-> "ok", hex |-> <<"d", "4", "1", "d">>], [kind |-> "throw"] }

\* fileTypeFromBuffer: a {mime, ext} pair with a non-empty mime, undefined when no
\* signature matches, or a throw.
FileTypeAnswers ==
    { [kind |-> "undefined"] } \cup Throws \cup
    { [kind |-> "type", mime |-> MimeImageJpeg, ext |-> <<"j", "p", "g">>],
      [kind |-> "type", mime |-> MimeAudioMpeg, ext |-> <<"m", "p", "3">>],
      [kind |-> "type", mime |-> MimeVideoMp4, ext |-> <<"m", "p", "4">>],
      [kind |-> "type", mime |-> MimePdf, ext |-> <<"p", "d", "f">>],
      [kind |-> "type", mime |-> MimeZip, ext |-> <<"z", "i", "p">>] }

\* The video element: loadedmetadata with duration and pixel size, or error.
VideoAnswers ==
    { [kind |-> "loadedmetadata", duration |-> 12, videoWidth |-> 640, videoHeight |-> 360],
      [kind |-> "error"] }

\* PDFDocument.load and the getters of the loaded document.
PdfAnswers ==
    { [kind |-> "ok", pageCount |-> 3,
       title |-> Some(<<"T">>), author |-> Some(<<>>), subject |-> undefined,
       creator |-> undefined, producer |-> Some(<<"p">>),
       creationDate |-> Some([time |-> 500]), modificationDate |-> undefined,
       keywords |-> Some(<<"a", ",", " ", "b">>)] } \cup ParserThrows

Unset == [kind |-> "unset"]

\* --------------------------------------------------------- the records ----

\* new Date(ms)
Date(ms) == [time |-> ms]

\* {...base, ...extra}: the keys of extra override those of base.
Spread(base, extra) ==
    [k \in DOMAIN base \cup DOMAIN extra |-> IF k \in DOMAIN extra THEN extra[k] ELSE base[k]]

\* detectedType?.mime
MimeOf(detectedType) == IF IsDefined(detectedType) THEN Some(Get(detectedType).mime) ELSE undefined

\* detectedType?.ext
ExtOf(detectedType) == IF IsDefined(detectedType) THEN Some(Get(detectedType).ext) ELSE undefined

\* The precedence reversed: file.type || detectedType?.mime
EffectiveMimeDeclaredFirst(detectedType, file) ==
    IF file.type # <<>> THEN file.type
    ELSE IF IsDefined(detectedType) THEN Get(detectedType).mime
    ELSE <<>>

\* detectedType?.mime || file.type
EffectiveMime(detectedType, file) ==
    LET mime == MimeOf(detectedType)
    IN  IF IsDefined(mime) /\ Get(mime) # <<>> THEN Get(mime) ELSE file.type

\* baseMetadata of analyzeFileEnhanced
BaseMetadata(file, detectedType, checksum, rawHeader) ==
    [name |-> file.name,
     size |-> file.size,
     type |-> file.type,
     lastModified |-> Date(file.lastModified),
     extension |-> ExtensionOf(file.name),
     mimeType |-> file.type,
     detectedMimeType |-> MimeOf(detectedType),
     realFileType |-> ExtOf(detectedType),
     checksum |-> checksum,
     rawHeader |-> rawHeader]

\* The metadata literal of the catch block of analyzeFileEnhanced.
FallbackMetadata(file) ==
    [name |-> file.name,
     size |-> file.size,
     type |-> file.type,
     lastModified |-> Date(file.lastModified),
     extension |-> ExtensionOf(file.name),
     mimeType |-> file.type]

\* The array hoisted out of the function: every call pushes on the same one.
KeptErrors(previous) == previous

\* const errors: string[] = [] at the head of each call; `previous` is the array
\* of the call before, which the new call does not see.
FreshErrors(previous) == <<>>

\* const warnings: string[] = []
FreshWarnings(previous) == <<>>

\* The comparison without the test of file.type against ''.
TypeMismatchAnyDeclared(detectedType, file) ==
    /\ IsDefined(detectedType)
    /\ Get(detectedType).mime # file.type

\* detectedType && detectedType.mime !== file.type && file.type !== ''
TypeMismatch(detectedType, file) ==
    /\ IsDefined(detectedType)
    /\ Get(detectedType).mime # file.type
    /\ file.type # <<>>

MismatchWarning(detectedType, file) ==
    <<"File type mismatch: detected ", Get(detectedType).mime,
      ", but file extension suggests ", file.type>>

\* warnings after the validation step.
ValidateType(warns, detectedType, file) ==
    IF TypeMismatch(detectedType, file)
    THEN Append(warns, MismatchWarning(detectedType, file))
    ELSE warns

\* The list handed out as it is.
AlwaysList(list) == Some(list)

\* list.length > 0 ? list : undefined
NonEmptyOrUndefined(list) == IF Len(list) > 0 THEN Some(list) ELSE undefined

\* The promise of analyzeFileEnhanced fulfilled by the return of the try block.
NormalReturn(metadata, preview, thumbnail, cat, errs, warns) ==
    [state |-> "fulfilled",
     value |-> [metadata |-> metadata,
                preview |-> preview,
                thumbnail |-> thumbnail,
                category |-> cat,
                errors |-> NonEmptyOrUndefined(errs),
                warnings |-> NonEmptyOrUndefined(warns)]]

\* `Failed to analyze file: ${error instanceof Error ? error.message : 'Unknown error'}`
FailureMessage(error) ==
    <<"Failed to analyze file: ", IF error.isError THEN error.message ELSE "Unknown error">>

\* A catch block that throws the error on.
OuterCatchRethrows(file, errs, error) == [state |-> "rejected", reason |-> error]

\* A catch block that classifies the file by its declared type and name.
OuterCatchClassifies(file, errs, error) ==
    [state |-> "fulfilled",
     value |-> [metadata |-> FallbackMetadata(file),
                preview |-> undefined,
                thumbnail |-> undefined,
                category |-> determineFileCategory(file.type, file.name),
                errors |-> Some(Append(errs, FailureMessage(error))),
                warnings |-> undefined]]

\* A catch block that reports the failure as a warning too.
OuterCatchWarns(file, errs, error) ==
    [state |-> "fulfilled",
     value |-> [metadata |-> FallbackMetadata(file),
                preview |-> undefined,
                thumbnail |-> undefined,
                category |-> "other",
                errors |-> Some(Append(errs, FailureMessage(error))),
                warnings |-> Some(<<FailureMessage(error)>>)]]

\* The promise of analyzeFileEnhanced settled by the catch block, which has pushed
\* its message on errors.
OuterCatch(file, errs, error) ==
    [state |-> "fulfilled",
     value |-> [metadata |-> FallbackMetadata(file),
                preview |-> undefined,
                thumbnail |-> undefined,
                category |-> "other",
                errors |-> Some(Append(errs, FailureMessage(error))),
                warnings |-> undefined]]

Pending == [state |-> "pending"]

\* ------------------------------------------------------ text extractor ----

\* The UTF-16 code units of a code point.
CodeUnits(cp) ==
    IF cp < 65536 THEN <<cp>>
    ELSE <<55296 + ((cp - 65536) \div 1024), 56320 + ((cp - 65536) % 1024)>>

\* The UTF-8 decoder of TextDecoder (non-fatal): a malformed sequence gives U+FFFD
\* and the byte that broke it is read again.
RECURSIVE Utf8Decode(_, _, _, _, _, _, _)
Utf8Decode(bytes, i, cp, needed, seen, lower, upper) ==
    IF i > Len(bytes) THEN (IF needed # 0 THEN <<65533>> ELSE <<>>)
    ELSE LET b == bytes[i] IN
         IF needed = 0 THEN
            IF b <= 127 THEN <<b>> \o Utf8Decode(bytes, i + 1, 0, 0, 0, 128, 191)
            ELSE IF b >= 194 /\ b <= 223 THEN Utf8Decode(bytes, i + 1, b % 32, 1, 0, 128, 191)
            ELSE IF b >= 224 /\ b <= 239 THEN
                Utf8Decode(bytes, i + 1, b % 16, 2, 0,
                           IF b = 224 THEN 160 ELSE 128, IF b = 237 THEN 159 ELSE 191)
            ELSE IF b >= 240 /\ b <= 244 THEN
                Utf8Decode(bytes, i + 1, b % 8, 3, 0,
                           IF b = 240 THEN 144 ELSE 128, IF b = 244 THEN 143 ELSE 191)
            ELSE <<65533>> \o Utf8Decode(bytes, i + 1, 0, 0, 0, 128, 191)
         ELSE IF b < lower \/ b > upper THEN <<65533>> \o Utf8Decode(bytes, i, 0, 0, 0, 128, 191)
         ELSE IF seen + 1 = needed
              THEN CodeUnits(cp * 64 + (b % 64)) \o Utf8Decode(bytes, i + 1, 0, 0, 0, 128, 191)
              ELSE Utf8Decode(bytes, i + 1, cp * 64 + (b % 64), needed, seen + 1, 128, 191)

Utf8Bom == <<239, 187, 191>>

\* new TextDecoder().decode(buffer): UTF-8, a leading byte-order mark is dropped.
TextDecode(buffer) ==
    IF Len(buffer) >= 3 /\ SubSeq(buffer, 1, 3) = Utf8Bom
    THEN Utf8Decode(buffer, 4, 0, 0, 0, 128, 191)
    ELSE Utf8Decode(buffer, 1, 0, 0, 0, 128, 191)

\* The code units the regular expression \s matches.
WhiteSpace ==
    {9, 10, 11, 12, 13, 32, 160, 5760, 8232, 8233, 8239, 8287, 12288, 65279} \cup (8192..8202)

\* text.split(/\s+/): the pieces between maximal runs of white space.
RECURSIVE SplitWhiteSpace(_, _)
SplitWhiteSpace(text, piece) ==
    IF Len(text) = 0 THEN <<piece>>
    ELSE IF Head(text) \in WhiteSpace
         THEN IF Len(text) > 1 /\ text[2] \in WhiteSpace
              THEN SplitWhiteSpace(Tail(text), piece)
              ELSE <<piece>> \o SplitWhiteSpace(Tail(text), <<>>)
         ELSE SplitWhiteSpace(Tail(text), Append(piece, Head(text)))

\* text.includes(sub)
Contains(text, sub) ==
    \E i \in 1..(Len(text) - Len(sub) + 1) : SubSeq(text, i, i + Len(sub) - 1) = sub

\* A classification that tests for a bare line feed first.
LineEndingsLfFirst(text) ==
    IF Contains(text, <<10>>) THEN "LF (Unix)"
    ELSE IF Contains(text, <<13, 10>>) THEN "CRLF (Windows)"
    ELSE IF Contains(text, <<13>>) THEN "CR (Mac)"
    ELSE "unknown"

\* lineEndings of extractTextMetadata
LineEndings(text) ==
    IF Contains(text, <<13, 10>>) THEN "CRLF (Windows)"
    ELSE IF Contains(text, <<10>>) THEN "LF (Unix)"
    ELSE IF Contains(text, <<13>>) THEN "CR (Mac)"
    ELSE "unknown"

\* A test with some() in the place of every().
HasBomSome(buffer) ==
    /\ Len(buffer) >= 3
    /\ \E i \in 1..3 : buffer[i] = Utf8Bom[i]

\* hasBom of extractTextMetadata
HasBom(buffer) ==
    /\ Len(buffer) >= 3
    /\ \A i \in 1..3 : buffer[i] = Utf8Bom[i]

\* An extractor that keeps the empty tokens of the split on white space.
extractTextMetadataKeepsEmptyWords(file, buffer, base) ==
    LET text == TextDecode(buffer)
        lines == split(text, 10)
        words == SplitWhiteSpace(text, <<>>)
    IN  Spread(base,
               [charset |-> "UTF-8",
                lineEndings |-> LineEndings(text),
                bom |-> HasBom(buffer),
                wordCount |-> Len(words),
                lineCount |-> Len(lines),
                characterCount |-> Len(text)])

extractTextMetadata(file, buffer, base) ==
    LET text == TextDecode(buffer)
        lines == split(text, 10)
        words == SelectSeq(SplitWhiteSpace(text, <<>>), LAMBDA word : Len(word) > 0)
    IN  Spread(base,
               [charset |-> "UTF-8",
                lineEndings |-> LineEndings(text),
                bom |-> HasBom(buffer),
                wordCount |-> Len(words),
                lineCount |-> Len(lines),
                characterCount |-> Len(text)])

\* --------------------------------------------------- document extractor ----

\* String.prototype.trim
BlankChars == {" ", "\t", "\n", "\r"}

RECURSIVE trim(_)
trim(s) ==
    IF Len(s) > 0 /\ Head(s) \in BlankChars THEN trim(Tail(s))
    ELSE IF Len(s) > 0 /\ s[Len(s)] \in BlankChars THEN trim(SubSeq(s, 1, Len(s) - 1))
    ELSE s

\* value || undefined for an optional string: the empty string is falsy.
TruthyString(o) == IF IsDefined(o) /\ Get(o) # <<>> THEN o ELSE undefined

\* keywords ? keywords.split(',').map(k => k.trim()) : undefined
Keywords(o) ==
    IF IsDefined(o) /\ Get(o) # <<>>
    THEN LET parts == split(Get(o), ",")
         IN  Some([i \in 1..Len(parts) |-> trim(parts[i])])
    ELSE undefined

\* A test that also takes a file sniffed as a PDF for one.
IsPdfSniffed(file, base) ==
    \/ file.type = MimePdf
    \/ base.extension = <<"p", "d", "f">>
    \/ base.detectedMimeType = Some(MimePdf)

\* file.type === 'application/pdf' || base.extension === 'pdf'
IsPdf(file, base) == file.type = MimePdf \/ base.extension = <<"p", "d", "f">>

\* extractAdvancedDocumentMetadata for a PDF, given how PDFDocument.load answered;
\* the catch block returns base.
DocumentFromPdf(base, pdf) ==
    IF pdf.kind = "ok"
    THEN Spread(base,
                [pageCount |-> pdf.pageCount,
                 title |-> TruthyString(pdf.title),
                 author |-> TruthyString(pdf.author),
                 subject |-> TruthyString(pdf.subject),
                 creator |-> TruthyString(pdf.creator),
                 producer |-> TruthyString(pdf.producer),
                 creationDate |-> pdf.creationDate,
                 modificationDate |-> pdf.modificationDate,
                 keywords |-> Keywords(pdf.keywords),
                 pdfVersion |-> "1.4",
                 isEncrypted |-> FALSE])
    ELSE base

\* ------------------------------------------------------ video extractor ----

\* The value the promise of extractEnhancedVideoMetadata resolves with.
VideoFromSignal(base, signal) ==
    IF signal.kind = "loadedmetadata"
    THEN Spread(base,
                [duration |-> signal.duration,
                 dimensions |-> [width |-> signal.videoWidth, height |-> signal.videoHeight]])
    ELSE base

\* ------------------------------------------------------ image extractor ----

DecDigits == <<"0", "1", "2", "3", "4", "5", "6", "7", "8", "9">>

\* Number.prototype.toString() of a natural number.
RECURSIVE toString10(_)
toString10(n) ==
    IF n < 10 THEN <<DecDigits[n + 1]>>
    ELSE toString10(n \div 10) \o <<DecDigits[(n % 10) + 1]>>

\* An object literal without properties.
EmptyObject == [k \in {} |-> undefined]

\* DataView.getUint8 and getUint16 (big-endian) at a 0-based offset; a read that
\* leaves the buffer throws a RangeError.
CanRead(buffer, offset, n) == offset >= 0 /\ offset + n <= Len(buffer)

getUint8(buffer, offset) == buffer[offset + 1]

getUint16(buffer, offset) == buffer[offset + 1] * 256 + buffer[offset + 2]

\* buffer.slice(from, to) with both ends clamped to the buffer.
Slice(buffer, from, to) ==
    LET hi == IF to > Len(buffer) THEN Len(buffer) ELSE to
    IN  IF from >= hi THEN <<>> ELSE SubSeq(buffer, from + 1, hi)

\* 'JFIF\0'
JfifIdentifier == <<74, 70, 73, 70, 0>>

\* A jfif block whose version is not padded and whose densities are read little-endian.
JfifBlockUnpadded(buffer, offset) ==
    LET majorVersion == getUint8(buffer, offset + 7)
        minorVersion == getUint8(buffer, offset + 8)
        units == getUint8(buffer, offset + 9)
    IN  [version |-> toString10(majorVersion) \o <<".">> \o toString10(minorVersion),
         resolutionUnit |-> IF units = 0 THEN "None" ELSE IF units = 1 THEN "inches" ELSE "cm",
         xResolution |-> getUint8(buffer, offset + 10) + 256 * getUint8(buffer, offset + 11),
         yResolution |-> getUint8(buffer, offset + 12) + 256 * getUint8(buffer, offset + 13)]

\* result.jfif of the APP0 branch; the caller has checked the reads are in range.
JfifBlock(buffer, offset) ==
    LET majorVersion == getUint8(buffer, offset + 7)
        minorVersion == getUint8(buffer, offset + 8)
        units == getUint8(buffer, offset + 9)
    IN  [version |-> toString10(majorVersion) \o <<".">> \o padStart0(toString10(minorVersion), 2),
         resolutionUnit |-> IF units = 0 THEN "None" ELSE IF units = 1 THEN "inches" ELSE "cm",
         xResolution |-> getUint16(buffer, offset + 10),
         yResolution |-> getUint16(buffer, offset + 12)]

\* result.encoding of the SOF0 branch.
EncodingBlock(buffer, offset) ==
    LET components == getUint8(buffer, offset + 7)
    IN  [process |-> "Baseline DCT, Huffman coding",
         bitsPerSample |-> getUint8(buffer, offset + 2),
         colorComponents |-> components,
         subSampling |-> IF components = 3 THEN Some("YCbCr4:2:0 (2 2)") ELSE undefined]

\* The while loop of analyzeJPEGStructure from `offset` on; a read out of range
\* throws into the catch block, which keeps what `result` holds by then.
RECURSIVE JpegWalk(_, _, _)
JpegWalk(buffer, offset, result) ==
    IF ~(offset < Len(buffer) - 1) THEN result
    ELSE LET marker == getUint16(buffer, offset)
             markerType == marker % 256
             at == offset + 2
         IN  IF marker \div 256 # 255 THEN result
             ELSE IF ~CanRead(buffer, at, 2) THEN result
             ELSE LET length == getUint16(buffer, at) IN
                  IF markerType = 224 THEN
                      IF TextDecode(Slice(buffer, at + 2, at + 7)) = JfifIdentifier
                      THEN IF CanRead(buffer, at + 12, 2)
                           THEN JpegWalk(buffer, at + length,
                                         [result EXCEPT !.jfif = JfifBlock(buffer, at)])
                           ELSE result
                      ELSE JpegWalk(buffer, at + length, result)
                  ELSE IF markerType = 192 THEN
                      IF CanRead(buffer, at + 7, 1)
                      THEN JpegWalk(buffer, at + length,
                                    [result EXCEPT !.encoding = EncodingBlock(buffer, at)])
                      ELSE result
                  ELSE JpegWalk(buffer, at + length, result)

analyzeJPEGStructure(buffer) ==
    LET result == [encoding |-> EmptyObject, jfif |-> EmptyObject]
    IN  IF ~CanRead(buffer, 0, 2) THEN result
        ELSE IF getUint16(buffer, 0) # 65496 THEN result
        ELSE JpegWalk(buffer, 2, result)

\* The tags the image extractor reads from the object parseExif returns.
ExifKeys ==
    {"Make", "Model", "Software", "ISO", "FNumber", "ExposureTime", "FocalLength",
     "FocalLengthIn35mmFormat", "Flash", "WhiteBalance", "MeteringMode", "ExposureMode",
     "SceneCaptureType", "DateTime", "DateTimeOriginal", "DateTimeDigitized",
     "GPSLatitude", "GPSLongitude", "GPSAltitude", "Orientation", "ColorSpace",
     "ImageWidth", "ImageHeight", "XResolution", "YResolution", "ResolutionUnit",
     "LensModel", "LensMake", "LensSerialNumber", "BitsPerSample", "Compression"}

\* An object parseExif returns: the tags of `given`, every other tag undefined.
ExifObject(given) ==
    [k \in ExifKeys |-> IF k \in DOMAIN given THEN Some(given[k]) ELSE undefined]

\* A camera picture (exposure time 1/250 s as a fraction) and a scan whose tags
\* hold zeros and codes outside the tables.
ExifSamples ==
    { ExifObject([Make |-> "Canon", ISO |-> 100, ExposureTime |-> [num |-> 1, den |-> 250],
                  Flash |-> 9, WhiteBalance |-> 0, MeteringMode |-> 5, ExposureMode |-> 0,
                  SceneCaptureType |-> 0, GPSLatitude |-> 48, GPSLongitude |-> 2,
                  ColorSpace |-> 1, ImageWidth |-> 4000, ImageHeight |-> 3000,
                  ResolutionUnit |-> 2, Compression |-> 6, BitsPerSample |-> 8]),
      ExifObject([ExposureTime |-> [num |-> 2, den |-> 1], Flash |-> 0, WhiteBalance |-> 1,
                  MeteringMode |-> 255, ExposureMode |-> 7, GPSLatitude |-> 0,
                  GPSLongitude |-> 2, ColorSpace |-> 65535, ImageWidth |-> 0,
                  ResolutionUnit |-> 9, Compression |-> 0]) }

\* parseExif: an object of tags, undefined when the file holds none, or a throw.
ExifAnswers ==
    { [kind |-> "undefined"] } \cup ParserThrows \cup
    { [kind |-> "ok", data |-> d] : d \in ExifSamples }

\* The image element: load with the decoded size, or error.
DecodeAnswers ==
    { [kind |-> "load", width |-> 1920, height |-> 1080], [kind |-> "error"] }

\* An optional number that is defined and not 0.
TruthyNumber(o) == IF IsDefined(o) /\ Get(o) # 0 THEN o ELSE undefined

\* table[code] for a Record<number, string>: undefined for a code it does not hold.
Lookup(table, code) == IF code \in DOMAIN table THEN Some(table[code]) ELSE undefined

formatExposureTime(exposureTime) ==
    IF exposureTime.num >= exposureTime.den
    THEN <<exposureTime, "s">>
    ELSE <<"1/", (2 * exposureTime.den + exposureTime.num) \div (2 * exposureTime.num), "s">>

formatFlash(flash) ==
    IF ~IsDefined(flash) THEN undefined
    ELSE IF Get(flash) % 2 = 1 THEN Some("Flash fired") ELSE Some("Flash did not fire")

formatWhiteBalance(wb) ==
    IF ~IsDefined(wb) THEN undefined
    ELSE IF Get(wb) = 0 THEN Some("Auto") ELSE Some("Manual")

formatMeteringMode(mode) ==
    LET modes == (1 :> "Average" @@ 2 :> "Center-weighted average" @@ 3 :> "Spot"
                  @@ 4 :> "Multi-spot" @@ 5 :> "Pattern" @@ 6 :> "Partial")
    IN  IF IsDefined(TruthyNumber(mode)) THEN Lookup(modes, Get(mode)) ELSE undefined

formatExposureMode(mode) ==
    LET modes == (0 :> "Auto exposure" @@ 1 :> "Manual exposure" @@ 2 :> "Auto bracket")
    IN  IF IsDefined(mode) THEN Lookup(modes, Get(mode)) ELSE undefined

formatSceneType(scene) ==
    LET scenes == (0 :> "Standard" @@ 1 :> "Landscape" @@ 2 :> "Portrait" @@ 3 :> "Night scene")
    IN  IF IsDefined(scene) THEN Lookup(scenes, Get(scene)) ELSE undefined

formatColorSpace(colorSpace) ==
    IF colorSpace = Some(1) THEN Some("sRGB")
    ELSE IF colorSpace = Some(65535) THEN Some("Uncalibrated")
    ELSE IF IsDefined(TruthyNumber(colorSpace)) THEN Some(<<"ColorSpace ", Get(colorSpace)>>)
    ELSE undefined

formatResolutionUnit(unit) ==
    LET units == (1 :> "None" @@ 2 :> "inches" @@ 3 :> "cm")
    IN  IF IsDefined(TruthyNumber(unit)) THEN Lookup(units, Get(unit)) ELSE undefined

formatCompression(compression) ==
    LET compressions == (1 :> "Uncompressed" @@ 6 :> "JPEG")
    IN  IF IsDefined(TruthyNumber(compression)) THEN Lookup(compressions, Get(compression))
        ELSE undefined

\* processedExif of extractEnhancedImageMetadata for a defined exifData.
ProcessedExif(exifData, dimensions) ==
    [make |-> exifData.Make,
     model |-> exifData.Model,
     software |-> exifData.Software,
     iso |-> exifData.ISO,
     fNumber |-> exifData.FNumber,
     exposureTime |->
        IF IsDefined(exifData.ExposureTime) /\ Get(exifData.ExposureTime).num # 0
        THEN Some(formatExposureTime(Get(exifData.ExposureTime))) ELSE undefined,
     focalLength |-> exifData.FocalLength,
     focalLengthIn35mm |-> exifData.FocalLengthIn35mmFormat,
     flash |-> formatFlash(exifData.Flash),
     whiteBalance |-> formatWhiteBalance(exifData.WhiteBalance),
     meteringMode |-> formatMeteringMode(exifData.MeteringMode),
     exposureMode |-> formatExposureMode(exifData.ExposureMode),
     sceneType |-> formatSceneType(exifData.SceneCaptureType),
     dateTime |-> exifData.DateTime,
     dateTimeOriginal |-> exifData.DateTimeOriginal,
     dateTimeDigitized |-> exifData.DateTimeDigitized,
     gps |->
        IF IsDefined(TruthyNumber(exifData.GPSLatitude))
           /\ IsDefined(TruthyNumber(exifData.GPSLongitude))
        THEN Some([latitude |-> Get(exifData.GPSLatitude),
                   longitude |-> Get(exifData.GPSLongitude),
                   altitude |-> exifData.GPSAltitude])
        ELSE undefined,
     orientation |-> exifData.Orientation,
     colorSpace |-> formatColorSpace(exifData.ColorSpace),
     pixelXDimension |-> OrElse(TruthyNumber(exifData.ImageWidth), dimensions.width),
     pixelYDimension |-> OrElse(TruthyNumber(exifData.ImageHeight), dimensions.height),
     xResolution |-> exifData.XResolution,
     yResolution |-> exifData.YResolution,
     resolutionUnit |-> formatResolutionUnit(exifData.ResolutionUnit),
     lensModel |-> exifData.LensModel,
     lensMake |-> exifData.LensMake,
     lensSerialNumber |-> exifData.LensSerialNumber]

\* What the image element's promise resolves with.
Dimensions(decode) ==
    IF decode.kind = "load" THEN [width |-> decode.width, height |-> decode.height]
    ELSE [width |-> 0, height |-> 0]

\* Number((w * h / 1_000_000).toFixed(1)), held in tenths of a megapixel.
Megapixels(dimensions) ==
    IF dimensions.width # 0 /\ dimensions.height # 0
    THEN Some([tenths |-> (dimensions.width * dimensions.height + 50000) \div 100000])
    ELSE undefined

\* file.type === 'image/jpeg' || base.extension === 'jpg' || base.extension === 'jpeg'
IsJpegFamily(file, base) ==
    \/ file.type = MimeImageJpeg
    \/ base.extension = <<"j", "p", "g">>
    \/ base.extension = <<"j", "p", "e", "g">>

\* extractEnhancedImageMetadata once the image element has signalled and parseExif
\* has answered; a throw of parseExif lands in the catch block, which returns base.
extractEnhancedImageMetadata(file, buffer, base, decode, exif) ==
    IF exif.kind = "throw" THEN base
    ELSE LET dimensions == Dimensions(decode)
             exifData == IF exif.kind = "ok" THEN Some(exif.data) ELSE undefined
             tag(k) == IF IsDefined(exifData) THEN Get(exifData)[k] ELSE undefined
             jpeg == IsJpegFamily(file, base)
             jpegInfo == analyzeJPEGStructure(buffer)
         IN  Spread(base,
                    [dimensions |-> dimensions,
                     megapixels |-> Megapixels(dimensions),
                     exif |-> IF IsDefined(exifData)
                              THEN Some(ProcessedExif(Get(exifData), dimensions))
                              ELSE undefined,
                     colorSpace |-> formatColorSpace(tag("ColorSpace")),
                     bitsPerSample |-> tag("BitsPerSample"),
                     compression |-> formatCompression(tag("Compression")),
                     encoding |-> IF jpeg THEN Some(jpegInfo.encoding) ELSE undefined,
                     jfif |-> IF jpeg THEN Some(jpegInfo.jfif) ELSE undefined])

\* ------------------------------------------------------ audio extractor ----

\* The properties the audio extractor reads from metadata.common.
CommonKeys ==
    {"picture", "title", "artist", "album", "albumartist", "year", "date", "genre",
     "track", "disk", "composer", "conductor", "lyricist", "writer", "publisher", "label",
     "copyright", "encodedby", "comment", "lyrics", "isrc", "barcode", "catalognumber",
     "musicbrainz_artistid", "musicbrainz_albumid", "musicbrainz_trackid",
     "musicbrainz_releasegroupid"}

\* The properties it reads from metadata.format.
FormatKeys ==
    {"container", "codec", "lossless", "numberOfChannels", "bitsPerSample", "sampleRate",
     "duration", "bitrate", "codecProfile"}

\* An object holding the properties of `given`, every other one of `keys` undefined.
ObjectOf(keys, given) ==
    [k \in keys |-> IF k \in DOMAIN given THEN Some(given[k]) ELSE undefined]

CodecLayer3 ==
    <<"M", "P", "E", "G", " ", "1", " ", "L", "a", "y", "e", "r", " ", "I", "I", "I">>

LayerIII == <<"L", "a", "y", "e", "r", " ", "I", "I", "I">>

\* What parseBuffer resolves with: a tagged MPEG file with two embedded pictures, and
\* a bare FLAC stream.
AudioSamples ==
    { [common |-> ObjectOf(CommonKeys,
          [picture |-> << [format |-> "image/png", data |-> <<137, 80>>,
                           type |-> undefined, description |-> undefined],
                          [format |-> "image/jpeg", data |-> <<255, 216, 255>>,
                           type |-> Some("Back"), description |-> Some("inlay")] >>,
           title |-> "Song", artist |-> "Band", year |-> 1999,
           track |-> [no |-> Some(3), of |-> Some(0)],
           disk |-> [no |-> undefined, of |-> undefined],
           composer |-> <<"C1", "C2">>,
           comment |-> << [string |-> Some("plain"), text |-> undefined],
                          [string |-> undefined, text |-> undefined] >>]),
       format |-> ObjectOf(FormatKeys,
          [container |-> "MPEG", codec |-> CodecLayer3, numberOfChannels |-> 2,
           sampleRate |-> 44100, duration |-> 180, bitrate |-> 128000]),
       native |-> [ID3v2 |-> Some(<<"TIT2">>), ID3v1 |-> undefined]],
      [common |-> ObjectOf(CommonKeys,
          [track |-> [no |-> undefined, of |-> undefined],
           disk |-> [no |-> undefined, of |-> undefined]]),
       format |-> ObjectOf(FormatKeys,
          [container |-> "FLAC", lossless |-> TRUE, numberOfChannels |-> 1]),
       native |-> [ID3v2 |-> undefined, ID3v1 |-> undefined]] }

\* parseBuffer: the parsed container, or a throw.
AudioAnswers == { [kind |-> "ok", metadata |-> m] : m \in AudioSamples } \cup ParserThrows

\* list?.[0]
First(o) == IF IsDefined(o) /\ Len(Get(o)) > 0 THEN Some(Get(o)[1]) ELSE undefined

\* position?.no ? { no: position.no, of: position.of || undefined } : undefined
Position(o) ==
    IF IsDefined(o) /\ IsDefined(TruthyNumber(Get(o).no))
    THEN Some([no |-> Get(Get(o).no), of |-> TruthyNumber(Get(o).of)])
    ELSE undefined

\* list?.map(c => typeof c === 'string' ? c : c.text || '')
Texts(o) ==
    IF IsDefined(o)
    THEN Some([i \in 1..Len(Get(o)) |->
                 IF IsDefined(Get(o)[i].string) THEN Get(Get(o)[i].string)
                 ELSE OrElse(Get(o)[i].text, "")])
    ELSE undefined

\* common.picture && common.picture.length > 0
HasPicture(common) == IsDefined(common.picture) /\ Len(Get(common.picture)) > 0

\* pictureInfo of extractEnhancedAudioMetadata
PictureInfo(common) ==
    IF HasPicture(common)
    THEN [i \in 1..Len(Get(common.picture)) |->
            LET pic == Get(common.picture)[i]
            IN  [mimeType |-> pic.format,
                 type |-> OrElse(pic.type, "Cover"),
                 description |-> OrElse(pic.description, "Cover"),
                 size |-> Len(pic.data)]]
    ELSE <<>>

\* format.codec?.includes('Layer III')
IsLayer3(format) == IsDefined(format.codec) /\ Contains(Get(format.codec), LayerIII)

\* mpegInfo of extractEnhancedAudioMetadata
MpegInfo(file, format) ==
    IF format.container = Some("MPEG") \/ file.type = MimeAudioMpeg
    THEN [version |-> IF IsLayer3(format) THEN "MPEG-1" ELSE "MPEG",
          layer |-> IF IsLayer3(format) THEN "3" ELSE "Unknown",
          channelMode |-> IF format.numberOfChannels = Some(2) THEN "Stereo" ELSE "Mono",
          emphasis |-> "None",
          copyrightFlag |-> FALSE,
          originalMedia |-> TRUE]
    ELSE EmptyObject

\* id3Info of extractEnhancedAudioMetadata
Id3Info(native) ==
    IF (IsDefined(native.ID3v2) \/ IsDefined(native.ID3v1)) /\ IsDefined(First(native.ID3v2))
    THEN [version |-> "2.3", size |-> 0, flags |-> <<>>]
    ELSE EmptyObject

\* audioMetadata of extractEnhancedAudioMetadata
AudioMetadata(file, base, metadata) ==
    LET common == metadata.common
        format == metadata.format
    IN  Spread(base,
           [duration |-> format.duration,
            bitrate |-> format.bitrate,
            sampleRate |-> format.sampleRate,
            channels |-> format.numberOfChannels,
            codecProfile |-> format.codecProfile,
            title |-> common.title,
            artist |-> common.artist,
            album |-> common.album,
            albumArtist |-> common.albumartist,
            year |-> common.year,
            date |-> common.date,
            genre |-> common.genre,
            track |-> Position(common.track),
            disk |-> Position(common.disk),
            composer |-> First(common.composer),
            conductor |-> First(common.conductor),
            lyricist |-> First(common.lyricist),
            writer |-> First(common.writer),
            publisher |-> First(common.publisher),
            label |-> First(common.label),
            copyright |-> First(common.copyright),
            encodedBy |-> common.encodedby,
            comment |-> Texts(common.comment),
            lyrics |-> Texts(common.lyrics),
            format |-> [container |-> format.container,
                        codec |-> format.codec,
                        lossless |-> format.lossless,
                        numberOfChannels |-> format.numberOfChannels,
                        bitsPerSample |-> format.bitsPerSample,
                        sampleRate |-> format.sampleRate,
                        duration |-> format.duration,
                        bitrate |-> format.bitrate],
            picture |->
                IF IsDefined(common.picture)
                THEN Some([i \in 1..Len(Get(common.picture)) |->
                             LET pic == Get(common.picture)[i]
                             IN  [format |-> pic.format, data |-> pic.data,
                                  description |-> pic.description, type |-> pic.type]])
                ELSE undefined,
            mpegInfo |-> MpegInfo(file, format),
            id3Info |-> Id3Info(metadata.native),
            pictureInfo |-> PictureInfo(common),
            isrc |-> First(common.isrc),
            barcode |-> First(common.barcode),
            catalognumber |-> First(common.catalognumber),
            musicbrainz |-> [artistId |-> First(common.musicbrainz_artistid),
                             albumId |-> First(common.musicbrainz_albumid),
                             trackId |-> First(common.musicbrainz_trackid),
                             releaseGroupId |-> First(common.musicbrainz_releasegroupid)]])

\* An audio record that also writes `type`, the role of the first picture.
extractEnhancedAudioMetadataTypeClash(file, base, answer, handle) ==
    IF answer.kind = "throw"
    THEN [metadata |-> base, albumArt |-> undefined]
    ELSE [metadata |-> Spread(AudioMetadata(file, base, answer.metadata), [type |-> <<"C", "o", "v", "e", "r">>]),
          albumArt |-> IF HasPicture(answer.metadata.common) THEN Some(handle) ELSE undefined]

\* A catch block that returns what the try block had assembled by then.
extractEnhancedAudioMetadataPartial(file, base, answer, handle) ==
    IF answer.kind = "throw"
    THEN [metadata |-> Spread(base, [tags |-> EmptyObject]), albumArt |-> undefined]
    ELSE [metadata |-> AudioMetadata(file, base, answer.metadata),
          albumArt |-> IF HasPicture(answer.metadata.common) THEN Some(handle) ELSE undefined]

\* extractEnhancedAudioMetadata given how parseBuffer answered; `handle` is the object
\* URL minted for the first embedded picture.  The catch block returns base alone.
extractEnhancedAudioMetadata(file, base, answer, handle) ==
    IF answer.kind = "throw"
    THEN [metadata |-> base, albumArt |-> undefined]
    ELSE [metadata |-> AudioMetadata(file, base, answer.metadata),
          albumArt |-> IF HasPicture(answer.metadata.common) THEN Some(handle) ELSE undefined]

\* ------------------------------------------------------------- the state ----

VARIABLES
    file,           \* the File analyzeFileEnhanced was called with
    run,            \* how many calls on this file have been started
    pc,             \* the await the current call is suspended at, or "done"
    script,         \* what each collaborator answered in the first call
    errors,         \* the errors array of the current call
    warnings,       \* the warnings array of the current call
    buffer,         \* the bytes file.arrayBuffer() resolved with
    checksum,       \* what calculateChecksum resolved with
    detectedType,   \* what fileTypeFromBuffer resolved with
    category,       \* the resolved category, "" before it is resolved
    baseMetadata,   \* baseMetadata, undefined before it is built
    decoded,        \* what the image element signalled
    src,            \* the object URL the video element holds
    calls,          \* the extractors the current call has called, in order
    nextHandle,     \* the next object URL URL.createObjectURL mints
    live,           \* the object URLs minted and not revoked
    promise,        \* the promise the current call returned
    first,          \* the promise of the first call, once settled
    input,          \* the bytes a helper is applied to on its own
    output,         \* what the helper returned, Unset before it has
    files,          \* App: the files state, a list of FileItem
    selectedFile,   \* App: the selectedFile state, a set with at most one index
    isProcessing,   \* App: the isProcessing state
    invocations,    \* App: the calls of handleFilesSelect, each with its closure
    mounted,        \* App: the component is mounted
    late            \* the signals the video element fired after the extractor returned

vars ==
    <<file, run, pc, script, errors, warnings, buffer, checksum, detectedType, category,
      baseMetadata, decoded, src, calls, nextHandle, live, promise, first,
      input, output, files, selectedFile, isProcessing, invocations, mounted, late>>

\* The state of App and of the helpers applied on their own, which a call of
\* analyzeFileEnhanced does not touch.
others == <<input, output, files, selectedFile, isProcessing, invocations, mounted, late>>

\* App as it is first rendered: no file, nothing selected, no call in flight.
AppIdle ==
    /\ files = <<>>
    /\ selectedFile = {}
    /\ isProcessing = FALSE
    /\ invocations = <<>>
    /\ mounted = TRUE

\* No helper is applied on its own and App is as first rendered.
OthersIdle ==
    /\ input = <<>>
    /\ output = Unset
    /\ AppIdle

Steps == {"arrayBuffer", "digest", "fileType", "decode", "exif", "audio", "video", "pdf"}

\* The first call takes any answer; a later call is given the answers of the first.
Replays(step, answer) == run = 1 \/ script[step] = answer

Record(step, answer) == script' = [script EXCEPT ![step] = answer]

Init ==
    /\ file \in Files
    /\ run = 1
    /\ pc = "arrayBuffer"
    /\ script = [s \in Steps |-> Unset]
    /\ errors = FreshErrors(<<>>)
    /\ warnings = FreshWarnings(<<>>)
    /\ buffer = <<>>
    /\ checksum = <<>>
    /\ detectedType = undefined
    /\ category = ""
    /\ baseMetadata = undefined
    /\ decoded = Unset
    /\ src = undefined
    /\ calls = <<>>
    /\ nextHandle = 1
    /\ live = {}
    /\ promise = Pending
    /\ first = Pending
    /\ late = <<>>
    /\ OthersIdle

\* A switch that sends archives to the document extractor.
DispatchArchiveToDocument(cat) ==
    IF cat \in {"image", "audio", "video", "document", "text"} THEN cat
    ELSE IF cat = "archive" THEN "document"
    ELSE "none"

\* The switch of analyzeFileEnhanced: the extractor a category is dispatched to.
Dispatch(cat) ==
    IF cat \in {"image", "audio", "video", "document", "text"} THEN cat ELSE "none"

\* The catch block of analyzeFileEnhanced.
Fail(error) ==
    /\ errors' = Append(errors, FailureMessage(error))
    /\ promise' = OuterCatch(file, errors, error)
    /\ pc' = "done"

\* The validation step and the return of the try block.
Return(metadata, preview, thumbnail, dt, cat) ==
    /\ warnings' = ValidateType(warnings, dt, file)
    /\ promise' = NormalReturn(metadata, preview, thumbnail, cat, errors, warnings')
    /\ pc' = "done"
    /\ UNCHANGED errors

\* await file.arrayBuffer()
ReadBuffer ==
    /\ pc = "arrayBuffer"
    /\ \E answer \in ArrayBufferAnswers :
        /\ Replays("arrayBuffer", answer)
        /\ Record("arrayBuffer", answer)
        /\ IF answer.kind = "ok"
           THEN /\ buffer' = file.bytes
                /\ pc' = "digest"
                /\ UNCHANGED <<errors, promise>>
           ELSE /\ Fail(answer.error)
                /\ UNCHANGED buffer
    /\ UNCHANGED <<file, run, warnings, checksum, detectedType, category, baseMetadata,
                   decoded, src, calls, nextHandle, live, first>>
    /\ UNCHANGED others

\* await calculateChecksum(buffer)
Digest ==
    /\ pc = "digest"
    /\ \E answer \in DigestAnswers :
        /\ Replays("digest", answer)
        /\ Record("digest", answer)
        /\ checksum' = calculateChecksum(buffer, answer)
    /\ pc' = "fileType"
    /\ UNCHANGED <<file, run, errors, warnings, buffer, detectedType, category, baseMetadata,
                   decoded, src, calls, nextHandle, live, promise, first>>
    /\ UNCHANGED others

\* await fileTypeFromBuffer(uint8Array), then the classification, baseMetadata and the
\* switch up to the first await of the extractor called; an extractor that awaits no
\* collaborator, and the default branch, run through to the return.
DetectType ==
    /\ pc = "fileType"
    /\ \E answer \in FileTypeAnswers :
        /\ Replays("fileType", answer)
        /\ Record("fileType", answer)
        /\ IF answer.kind = "throw"
           THEN /\ Fail(answer.error)
                /\ UNCHANGED <<warnings, detectedType, category, baseMetadata, src, calls,
                               nextHandle, live>>
           ELSE LET dt == IF answer.kind = "type"
                          THEN Some([mime |-> answer.mime, ext |-> answer.ext])
                          ELSE undefined
                    cat == determineFileCategory(EffectiveMime(dt, file), file.name)
                    base == BaseMetadata(file, dt, checksum, extractRawHeader(buffer))
                    extractor == Dispatch(cat)
                IN  /\ detectedType' = dt
                    /\ category' = cat
                    /\ baseMetadata' = Some(base)
                    /\ calls' = IF extractor = "none" THEN calls ELSE Append(calls, extractor)
                    /\ CASE extractor = "image" ->
                              /\ nextHandle' = nextHandle + 1
                              /\ live' = live \cup {nextHandle}
                              /\ pc' = "image.decode"
                              /\ UNCHANGED <<errors, warnings, src, promise>>
                         [] extractor = "audio" ->
                              /\ pc' = "audio.parse"
                              /\ UNCHANGED <<errors, warnings, src, nextHandle, live, promise>>
                         [] extractor = "video" ->
                              /\ src' = Some(nextHandle)
                              /\ nextHandle' = nextHandle + 1
                              /\ live' = live \cup {nextHandle}
                              /\ pc' = "video.load"
                              /\ UNCHANGED <<errors, warnings, promise>>
                         [] extractor = "document" /\ IsPdf(file, base) ->
                              /\ pc' = "document.load"
                              /\ UNCHANGED <<errors, warnings, src, nextHandle, live, promise>>
                         [] extractor = "document" /\ ~IsPdf(file, base) ->
                              /\ Return(base, undefined, undefined, dt, cat)
                              /\ UNCHANGED <<src, nextHandle, live>>
                         [] extractor = "text" ->
                              /\ Return(extractTextMetadata(file, buffer, base),
                                        undefined, undefined, dt, cat)
                              /\ UNCHANGED <<src, nextHandle, live>>
                         [] OTHER ->
                              /\ Return(base, undefined, undefined, dt, cat)
                              /\ UNCHANGED <<src, nextHandle, live>>
    /\ UNCHANGED <<file, run, buffer, checksum, decoded, first>>
    /\ UNCHANGED others

\* An image promise that only onload resolves: after an error it stays pending.
AfterDecodeLoadOnly(answer) ==
    IF answer.kind = "load" THEN "image.exif" ELSE "image.unresolved"

\* Where extractEnhancedImageMetadata goes on once the image element has signalled:
\* onload and onerror both resolve the promise, and parseExif is awaited next.
AfterDecode(answer) == "image.exif"

\* The image element signals load or error.
ImageDecoded ==
    /\ pc = "image.decode"
    /\ \E answer \in DecodeAnswers :
        /\ Replays("decode", answer)
        /\ Record("decode", answer)
        /\ decoded' = answer
        /\ pc' = AfterDecode(answer)
    /\ UNCHANGED <<file, run, errors, warnings, buffer, checksum, detectedType, category,
                   baseMetadata, src, calls, nextHandle, live, promise, first>>
    /\ UNCHANGED others

\* parseExif answers; the image extractor returns, the preview URL is minted and the
\* call returns.
ExifParsed ==
    /\ pc = "image.exif"
    /\ \E answer \in ExifAnswers :
        /\ Replays("exif", answer)
        /\ Record("exif", answer)
        /\ Return(extractEnhancedImageMetadata(file, buffer, Get(baseMetadata), decoded, answer),
                  Some(nextHandle), undefined, detectedType, category)
    /\ nextHandle' = nextHandle + 1
    /\ live' = live \cup {nextHandle}
    /\ UNCHANGED <<file, run, buffer, checksum, detectedType, category, baseMetadata,
                   decoded, src, calls, first>>
    /\ UNCHANGED others

\* parseBuffer answers; the audio extractor mints the album-art URL if there is a
\* picture and returns, the preview URL is minted and the call returns.
AudioParsed ==
    /\ pc = "audio.parse"
    /\ \E answer \in AudioAnswers :
        /\ Replays("audio", answer)
        /\ Record("audio", answer)
        /\ LET audioResult == extractEnhancedAudioMetadata(file, Get(baseMetadata), answer,
                                                           nextHandle)
               minted == IF IsDefined(audioResult.albumArt) THEN 1 ELSE 0
           IN  /\ Return(audioResult.metadata, Some(nextHandle + minted), audioResult.albumArt,
                         detectedType, category)
               /\ nextHandle' = nextHandle + minted + 1
               /\ live' = live \cup (nextHandle..(nextHandle + minted))
    /\ UNCHANGED <<file, run, buffer, checksum, detectedType, category, baseMetadata,
                   decoded, src, calls, first>>
    /\ UNCHANGED others

\* The video element signals loadedmetadata or error; the extractor revokes the URL
\* of the element and returns, the preview URL is minted and the call returns.
VideoSignalled ==
    /\ pc = "video.load"
    /\ \E answer \in VideoAnswers :
        /\ Replays("video", answer)
        /\ Record("video", answer)
        /\ Return(VideoFromSignal(Get(baseMetadata), answer), Some(nextHandle), undefined,
                  detectedType, category)
    /\ nextHandle' = nextHandle + 1
    /\ live' = (live \ src) \cup {nextHandle}
    /\ UNCHANGED <<file, run, buffer, checksum, detectedType, category, baseMetadata,
                   decoded, src, calls, first>>
    /\ UNCHANGED others

\* PDFDocument.load answers; the document extractor and the call return.
DocumentLoaded ==
    /\ pc = "document.load"
    /\ \E answer \in PdfAnswers :
        /\ Replays("pdf", answer)
        /\ Record("pdf", answer)
        /\ Return(DocumentFromPdf(Get(baseMetadata), answer), undefined, undefined,
                  detectedType, category)
    /\ UNCHANGED <<file, run, buffer, checksum, detectedType, category, baseMetadata,
                   decoded, src, calls, nextHandle, live, first>>
    /\ UNCHANGED others

\* The most signals the video element fires after the first.
MaxLateSignals == 1

\* A promise that lets a later resolve() replace its value.
SettledLast(value, later) == later

\* resolve(later) on a promise settled with `value`: the call has no effect.
Settled(value, later) == value

\* The video element fires loadedmetadata or error after the extractor's promise
\* was settled by an earlier signal and the call has returned: the handler calls
\* resolve again.
LateVideoSignal ==
    /\ pc = "done"
    /\ calls = <<"video">>
    /\ Len(late) < MaxLateSignals
    /\ \E signal \in VideoAnswers :
        /\ late' = Append(late, signal)
        /\ promise' = [promise EXCEPT !.value.metadata =
                           Settled(@, VideoFromSignal(Get(baseMetadata), signal))]
    /\ UNCHANGED <<file, run, pc, script, errors, warnings, buffer, checksum, detectedType,
                   category, baseMetadata, decoded, src, calls, nextHandle, live, first>>
    /\ UNCHANGED <<input, output, files, selectedFile, isProcessing, invocations, mounted>>

\* analyzeFileEnhanced is called again on the same file.
AnalyzeAgain ==
    /\ pc = "done"
    /\ run < MaxRuns
    /\ run' = run + 1
    /\ first' = IF run = 1 THEN promise ELSE first
    /\ pc' = "arrayBuffer"
    /\ errors' = FreshErrors(errors)
    /\ warnings' = FreshWarnings(warnings)
    /\ buffer' = <<>>
    /\ checksum' = <<>>
    /\ detectedType' = undefined
    /\ category' = ""
    /\ baseMetadata' = undefined
    /\ decoded' = Unset
    /\ src' = undefined
    /\ calls' = <<>>
    /\ promise' = Pending
    /\ UNCHANGED <<file, script, nextHandle, live>>
    /\ UNCHANGED others

Next ==
    \/ ReadBuffer
    \/ Digest
    \/ DetectType
    \/ ImageDecoded
    \/ ExifParsed
    \/ AudioParsed
    \/ VideoSignalled
    \/ DocumentLoaded
    \/ LateVideoSignal
    \/ AnalyzeAgain

Spec == Init /\ [][Next]_vars

\* A collaborator of the call in flight answers.
Answer ==
    \/ ReadBuffer
    \/ Digest
    \/ DetectType
    \/ ImageDecoded
    \/ ExifParsed
    \/ AudioParsed
    \/ VideoSignalled
    \/ DocumentLoaded

\* The collaborator a call awaits answers in the end.  Nothing obliges a caller to
\* call again.
Responsive == WF_vars(Answer)

\* The files the calls are followed to their return for: declared text/plain or
\* without a declared type, named as a text, a PDF or a JPEG; the sniffer may take
\* any of them for any type.
LiveFiles ==
    { f \in Files :
        /\ f.bytes = TextBytes
        /\ f.type \in {MimeTextPlain, <<>>}
        /\ f.name \in {<<"x", ".", "t", "x", "t">>, <<"d", ".", "p", "d", "f">>,
                        <<"p", ".", "j", "p", "g">>} }

LiveInit == Init /\ file \in LiveFiles

FairSpec == LiveInit /\ [][Next]_vars /\ Responsive

\* ------------------------------------------------------------ properties ----

\* The call has returned.
Done == pc = "done"

\* The AnalysisResult the call resolved with.
Result == promise.value

\* The call returned from its try block (baseMetadata is built only there).
NormalPath == Done /\ IsDefined(baseMetadata)

\* The call returned from its catch block.
OuterFailure ==
    Done /\ (script.arrayBuffer.kind = "throw" \/ script.fileType.kind = "throw")

\* The part of a name after its last dot, the whole name when it holds no dot.
SuffixOf(name) ==
    CHOOSE s \in { SubSeq(name, i, Len(name)) : i \in 1..(Len(name) + 1) } :
        /\ \A j \in 1..Len(s) : s[j] # "."
        /\ Len(s) = Len(name) \/ name[Len(name) - Len(s)] = "."

\* The six fields the catch block derives from the file.
FileFields == {"name", "size", "type", "lastModified", "extension", "mimeType"}

DerivedFromFile(metadata) ==
    /\ metadata.name = file.name
    /\ metadata.size = Len(file.bytes)
    /\ metadata.type = file.type
    /\ metadata.lastModified.time = file.lastModified
    /\ metadata.extension = toLowerCase(SuffixOf(file.name))
    /\ metadata.mimeType = file.type

\* C1: analyzeFileEnhanced never raises to its caller: whatever a collaborator does
\* (buffer read, digest, sniffer, a parser inside an extractor), the promise is never
\* rejected, and a call that has returned has resolved with an AnalysisResult.
C1_NeverRejects ==
    /\ promise.state \in {"pending", "fulfilled"}
    /\ Done <=> promise.state = "fulfilled"
    /\ Done =>
        DOMAIN Result = {"metadata", "preview", "thumbnail", "category", "errors", "warnings"}

\* C1 witness: the sniffer threw and the call has returned.
C1_Witness == Done /\ run = 1 /\ script.fileType.kind = "throw" /\ promise.state = "fulfilled"

\* A parser inside the extractor that ran threw during this call.
ParserThrew ==
    /\ NormalPath
    /\ \/ calls = <<"image">> /\ script.exif.kind = "throw"
       \/ calls = <<"audio">> /\ script.audio.kind = "throw"
       \/ calls = <<"document">> /\ IsPdf(file, Get(baseMetadata)) /\ script.pdf.kind = "throw"

\* C2: when the parser inside an extractor throws, the errors list of the returned
\* AnalysisResult holds a string for that failure.
C2_CrashRecorded ==
    ParserThrew => IsDefined(Result.errors) /\ Len(Get(Result.errors)) >= 1

\* The sniffed MIME type, undefined when the sniffer found none.
SniffedMime == IF IsDefined(detectedType) THEN Some(Get(detectedType).mime) ELSE undefined

\* The result carries exactly the one warning about the sniffed and the declared type.
WarnsOfMismatch ==
    /\ IsDefined(Result.warnings)
    /\ Len(Get(Result.warnings)) = 1
    /\ Get(Result.warnings)[1][2] = Get(SniffedMime)
    /\ Get(Result.warnings)[1][4] = file.type

\* C3 as stated: a type-mismatch warning is appended whenever the sniffed MIME type is
\* present, non-empty and differs from the declared one, whatever the declared type is
\* (the empty one included), and none when the sniffed type is absent or equal.
C3_WarnsForEveryDeclaredType ==
    NormalPath =>
        IF IsDefined(SniffedMime) /\ Get(SniffedMime) # <<>> /\ Get(SniffedMime) # file.type
        THEN WarnsOfMismatch
        ELSE Result.warnings = undefined

\* C3 amended: the warning is appended exactly when the sniffed MIME type is present,
\* differs from the declared MIME type and the declared MIME type is not empty; no
\* warning is appended when the sniffed type is absent, equals the declared type, or
\* the declared type is empty.
C3_WarnsUnlessDeclaredEmpty ==
    NormalPath =>
        IF IsDefined(SniffedMime) /\ Get(SniffedMime) # file.type /\ file.type # <<>>
        THEN WarnsOfMismatch
        ELSE Result.warnings = undefined

\* C3 witness: JPEG content declared text/plain has returned with the warning.
C3_Witness ==
    /\ NormalPath
    /\ SniffedMime = Some(MimeImageJpeg)
    /\ file.type = MimeTextPlain
    /\ WarnsOfMismatch

\* C4: in every returned AnalysisResult errors and warnings are undefined or hold at
\* least one entry, on the normal path and on the outer-failure path alike.
C4_NeverEmptyLists ==
    Done =>
        /\ IsDefined(Result.errors) => Len(Get(Result.errors)) >= 1
        /\ IsDefined(Result.warnings) => Len(Get(Result.warnings)) >= 1

\* C4 witness: a call returned from its try block with nothing to report, and both
\* fields are undefined.
C4_Witness ==
    NormalPath /\ Len(warnings) = 0 /\ Len(errors) = 0
        /\ Result.errors = undefined /\ Result.warnings = undefined

\* C5: when a throw reaches the outer boundary, the result carries only the fields
\* derived from the file, category 'other', exactly one error string and no preview,
\* thumbnail or warnings.
C5_OuterFailureResult ==
    OuterFailure =>
        /\ DOMAIN Result.metadata = FileFields
        /\ DerivedFromFile(Result.metadata)
        /\ Result.category = "other"
        /\ IsDefined(Result.errors) /\ Len(Get(Result.errors)) = 1
        /\ Get(Result.errors)[1][1] = "Failed to analyze file: "
        /\ Result.preview = undefined
        /\ Result.thumbnail = undefined
        /\ Result.warnings = undefined

\* C5 witness: the buffer read failed and the call has returned.
C5_Witness == Done /\ run = 1 /\ script.arrayBuffer.kind = "throw"

\* mime starts with `family` followed by a slash.
InFamily(mime, family) ==
    /\ Len(mime) > Len(family)
    /\ \A i \in 1..Len(family) : mime[i] = family[i]
    /\ mime[Len(family) + 1] = "/"

Range(arr) == { arr[i] : i \in 1..Len(arr) }

\* The categories whose extension table holds ext.
TableCategories(ext) ==
    { c \in {"document", "archive", "image", "video", "audio", "text"} :
        ext \in Range(CASE c = "document" -> documentExts
                        [] c = "archive" -> archiveExts
                        [] c = "image" -> imageExts
                        [] c = "video" -> videoExts
                        [] c = "audio" -> audioExts
                        [] c = "text" -> textExts) }

\* The sniffed MIME type if present, else the declared one.
SniffedElseDeclared == IF IsDefined(SniffedMime) THEN Get(SniffedMime) ELSE file.type

Families ==
    [image |-> <<"i", "m", "a", "g", "e">>,
     video |-> <<"v", "i", "d", "e", "o">>,
     audio |-> <<"a", "u", "d", "i", "o">>,
     text |-> <<"t", "e", "x", "t">>]

\* The categories whose MIME family mime belongs to (at most one).
MimeCategories(mime) == { c \in DOMAIN Families : InFamily(mime, Families[c]) }

\* C6: the category follows the three-step precedence: the MIME type (sniffed, else
\* declared) decides if it starts with image/, video/, audio/ or text/; otherwise the
\* lower-cased filename suffix is looked up in the extension tables; otherwise 'other'.
\* application/octet-stream with extension flac is audio, extension xyz123 is other.
C6_ClassifierPrecedence ==
    NormalPath =>
        LET mime == SniffedElseDeclared
            ext == toLowerCase(SuffixOf(file.name))
        IN  /\ MimeCategories(mime) # {} => Result.category \in MimeCategories(mime)
            /\ MimeCategories(mime) = {} /\ TableCategories(ext) # {} =>
                  Result.category \in TableCategories(ext)
            /\ MimeCategories(mime) = {} /\ TableCategories(ext) = {} =>
                  Result.category = "other"
            /\ mime = MimeOctetStream /\ ext = <<"f", "l", "a", "c">> =>
                  Result.category = "audio"
            /\ MimeCategories(mime) = {} /\ ext = <<"x", "y", "z", "1", "2", "3">> =>
                  Result.category = "other"

\* C6 witness: s.FLAC declared application/octet-stream, nothing sniffed, is audio.
C6_Witness ==
    /\ NormalPath
    /\ SniffedMime = undefined
    /\ file.type = MimeOctetStream
    /\ file.name = <<"s", ".", "F", "L", "A", "C">>
    /\ Result.category = "audio"

\* The category the classifier gives this file had it been declared and named otherwise.
CategoryIf(declared, name) ==
    determineFileCategory(EffectiveMime(detectedType, [file EXCEPT !.type = declared]), name)

\* C7: category resolution is content-first: with a sniffed MIME type present, the
\* category and the extractor that ran are what they would be for any other declared
\* type, and when the sniffed type is an image/, video/, audio/ or text/ type, for any
\* other filename too.  JPEG bytes named x.txt and declared text/plain are an image,
\* went through the image extractor, and carry the mismatch warning.
C7_ContentFirst ==
    NormalPath /\ IsDefined(SniffedMime) =>
        /\ \A declared \in DeclaredTypes : CategoryIf(declared, file.name) = Result.category
        /\ calls = IF Result.category \in {"archive", "other"} THEN <<>> ELSE <<Result.category>>
        /\ MimeCategories(Get(SniffedMime)) # {} =>
              \A declared \in DeclaredTypes, name \in FileNames :
                  CategoryIf(declared, name) = Result.category
        /\ ( /\ SniffedMime = Some(MimeImageJpeg)
             /\ file.name = <<"x", ".", "t", "x", "t">>
             /\ file.type = MimeTextPlain )
           => Result.category = "image" /\ calls = <<"image">> /\ WarnsOfMismatch

\* C7 witness: that JPEG named x.txt and declared text/plain has returned as an image.
C7_Witness ==
    /\ NormalPath
    /\ SniffedMime = Some(MimeImageJpeg)
    /\ file.name = <<"x", ".", "t", "x", "t">>
    /\ file.type = MimeTextPlain
    /\ Result.category = "image"

\* The fields of BaseMetadata.
BaseFields ==
    FileFields \cup {"detectedMimeType", "realFileType", "checksum", "rawHeader"}

\* Two results agree on their BaseMetadata fields, category, errors and warnings.
SameButHandles(a, b) ==
    /\ DOMAIN a.metadata = DOMAIN b.metadata
    /\ \A k \in DOMAIN a.metadata \cap BaseFields : a.metadata[k] = b.metadata[k]
    /\ a.category = b.category
    /\ a.errors = b.errors
    /\ a.warnings = b.warnings

\* C8: a second call on the same file, with collaborators that answer as in the first,
\* yields the same BaseMetadata, category, errors and warnings; only the preview and
\* thumbnail handles may differ.
C8_Idempotent ==
    Done /\ run > 1 => SameButHandles(Result, first.value)

\* C8 witness: a second call has returned, with a preview handle other than the first's.
C8_Witness ==
    /\ Done /\ run = 2
    /\ IsDefined(Result.preview)
    /\ Result.preview # first.value.preview

\* C9: one extractor call per file, that of the resolved category, for image, audio,
\* video, document and text; none for archive and other, whose metadata is the base
\* record (on the outer-failure path, the fields derived from the file).
C9_OneExtractor ==
    /\ Len(calls) <= 1
    /\ Done =>
        /\ Result.category \in {"image", "audio", "video", "document", "text"} =>
              calls = <<Result.category>>
        /\ Result.category \in {"archive", "other"} =>
              /\ calls = <<>>
              /\ DOMAIN Result.metadata \subseteq BaseFields
              /\ DerivedFromFile(Result.metadata)
              /\ NormalPath => Result.metadata = Get(baseMetadata)

\* C9 witness: an archive has returned without an extractor call.
C9_Witness == NormalPath /\ Result.category = "archive" /\ calls = <<>>

\* C10: the metadata an extractor returns, on success or on its internal failure, holds
\* every BaseMetadata field with the value of the base record it was given.
C10_ExtractorsExtendBase ==
    NormalPath /\ calls # <<>> =>
        /\ DOMAIN Get(baseMetadata) = BaseFields
        /\ \A k \in BaseFields :
              /\ k \in DOMAIN Result.metadata
              /\ Result.metadata[k] = Get(baseMetadata)[k]

\* C10 witness: the audio extractor has returned the tags of a parsed container.
C10_Witness ==
    /\ NormalPath
    /\ calls = <<"audio">>
    /\ script.audio.kind = "ok"
    /\ "mpegInfo" \in DOMAIN Result.metadata

\* ------------------------------------- the text extractor on its own ----

\* The longest buffer drawn from TextAlphabet.
MaxTextLen == 4

\* The bytes the buffers are drawn from: a letter, a space, LF, CR and the three
\* bytes of the UTF-8 byte-order mark.
TextAlphabet == {97, 32, 10, 13, 239, 187, 191}

SeqsUpTo(S, n) == UNION { [1..k -> S] : k \in 0..n }

\* EF BB BF followed by "hi\r\nthere"
BomCrlfBytes == <<239, 187, 191, 104, 105, 13, 10, 116, 104, 101, 114, 101>>

TextInputs == SeqsUpTo(TextAlphabet, MaxTextLen) \cup {TextBytes, BomCrlfBytes}

\* The File and the base record a helper applied on its own is given.
HelperFile(bytes) ==
    [name |-> <<"x", ".", "t", "x", "t">>, type |-> MimeTextPlain, bytes |-> bytes,
     size |-> Len(bytes), lastModified |-> 1000]

HelperBase(bytes) == BaseMetadata(HelperFile(bytes), undefined, <<>>, extractRawHeader(bytes))

\* No call of analyzeFileEnhanced is in flight.
PipelineIdle ==
    /\ file = HelperFile(<<>>)
    /\ run = 1
    /\ pc = "idle"
    /\ script = [s \in Steps |-> Unset]
    /\ errors = <<>>
    /\ warnings = <<>>
    /\ buffer = <<>>
    /\ checksum = <<>>
    /\ detectedType = undefined
    /\ category = ""
    /\ baseMetadata = undefined
    /\ decoded = Unset
    /\ src = undefined
    /\ calls = <<>>
    /\ nextHandle = 1
    /\ live = {}
    /\ promise = Pending
    /\ first = Pending
    /\ late = <<>>

pipeline ==
    <<file, run, pc, script, errors, warnings, buffer, checksum, detectedType, category,
      baseMetadata, decoded, src, calls, nextHandle, live, promise, first, late>>

app == <<files, selectedFile, isProcessing, invocations, mounted>>

TextInit ==
    /\ input \in TextInputs
    /\ output = Unset
    /\ PipelineIdle
    /\ AppIdle

\* extractTextMetadata(file, buffer, base) is called and returns.
ExtractText ==
    /\ output = Unset
    /\ output' = extractTextMetadata(HelperFile(input), input, HelperBase(input))
    /\ UNCHANGED <<input, pipeline, app>>

TextNext == ExtractText

TextSpec == TextInit /\ [][TextNext]_vars

\* The number of line-feed characters of a text.
LineFeeds(text) == Cardinality({ i \in 1..Len(text) : text[i] = 10 })

\* The number of maximal runs of characters that are not white space: the places
\* where such a run starts.
WordRuns(text) ==
    Cardinality({ i \in 1..Len(text) :
                    /\ text[i] \notin WhiteSpace
                    /\ i = 1 \/ text[i - 1] \in WhiteSpace })

\* C12: for every buffer, the text extractor reports lineCount = the number of line
\* feeds of the decoded text + 1, wordCount = the number of maximal runs of
\* characters that are not white space, and characterCount = the number of code
\* units of the decoded text (the number of bytes, when every byte is ASCII); the
\* bytes of "a b\nc" give 2, 3 and 5.
C12_TextCounts ==
    output # Unset =>
        LET text == TextDecode(input)
        IN  /\ output.lineCount = LineFeeds(text) + 1
            /\ output.wordCount = WordRuns(text)
            /\ output.characterCount = Len(text)
            /\ (\A i \in 1..Len(input) : input[i] < 128) => output.characterCount = Len(input)
            /\ input = TextBytes =>
                 /\ output.lineCount = 2
                 /\ output.wordCount = 3
                 /\ output.characterCount = 5

\* The extractor has returned for the bytes of "a b\nc".
C12_Witness ==
    /\ input = TextBytes
    /\ output # Unset
    /\ output.lineCount = 2
    /\ output.wordCount = 3
    /\ output.characterCount = 5

HasCrLf(text) == \E i \in 1..(Len(text) - 1) : text[i] = 13 /\ text[i + 1] = 10

HasChar(text, c) == \E i \in 1..Len(text) : text[i] = c

\* A line feed that no carriage return precedes.
HasBareLf(text) == \E i \in 1..Len(text) : text[i] = 10 /\ (i = 1 \/ text[i - 1] # 13)

\* C13: a text that contains CRLF is reported 'CRLF (Windows)' whatever else it
\* contains; otherwise one that contains LF is 'LF (Unix)'; otherwise one that
\* contains CR is 'CR (Mac)'; a text with no line break is 'unknown'.
C13_LineEndingPriority ==
    output # Unset =>
        LET text == TextDecode(input)
        IN  output.lineEndings =
                IF HasCrLf(text) THEN "CRLF (Windows)"
                ELSE IF HasChar(text, 10) THEN "LF (Unix)"
                ELSE IF HasChar(text, 13) THEN "CR (Mac)"
                ELSE "unknown"

\* A text with CRLF and a bare LF has been reported as CRLF.
C13_Witness ==
    /\ output # Unset
    /\ HasCrLf(TextDecode(input))
    /\ HasBareLf(TextDecode(input))
    /\ output.lineEndings = "CRLF (Windows)"

\* C14: bom is true exactly when the buffer has at least 3 bytes and starts with
\* EF BB BF; for a buffer of fewer than 3 bytes the extractor returns with bom false.
C14_BomExactly ==
    output # Unset =>
        /\ "bom" \in DOMAIN output
        /\ output.bom = (/\ Len(input) >= 3
                         /\ input[1] = 239
                         /\ input[2] = 187
                         /\ input[3] = 191)
        /\ Len(input) < 3 => output.bom = FALSE

\* The extractor has returned bom true and CRLF for EF BB BF "hi\r\nthere".
C14_Witness ==
    /\ input = BomCrlfBytes
    /\ output # Unset
    /\ output.bom = TRUE
    /\ output.lineEndings = "CRLF (Windows)"

\* The extractor has returned bom false for a buffer of fewer than 3 bytes.
C14_ShortBuffer ==
    /\ output # Unset
    /\ Len(input) < 3
    /\ input # <<>>
    /\ output.bom = FALSE

\* -------------------------------- the JPEG structural parse on its own ----

\* The longest buffer drawn from JpegAlphabet.
MaxJpegLen == 4

\* Bytes of markers (FF, D8, E0, C0) and of lengths.
JpegAlphabet == {0, 2, 192, 216, 224, 255}

\* FF D8, an APP0 segment with the identifier JFIF\0 and the given fields, then `tail`.
JfifBuffer(length, major, minor, units, x, y, tail) ==
    <<255, 216, 255, 224, 0, length>> \o JfifIdentifier \o
    <<major, minor, units, x \div 256, x % 256, y \div 256, y % 256, 0, 0>> \o tail

\* What follows the APP0 segment: nothing, EOI, a SOF0 segment of a 3-component
\* picture, a SOF0 segment cut short, a second JFIF segment of version 2.02.
JpegTails ==
    { <<>>,
      <<255, 217>>,
      <<255, 192, 0, 17, 8, 0, 16, 0, 16, 3, 1, 34, 0, 2, 17, 1, 3, 17, 1, 255, 217>>,
      <<255, 192, 0, 17, 8>>,
      <<255, 224, 0, 16, 74, 70, 73, 70, 0, 2, 2, 2, 0, 96, 0, 96, 0, 0>> }

JfifInputs ==
    { JfifBuffer(length, major, minor, units, x, y, tail) :
        length \in {16, 0}, major \in {1, 2}, minor \in {0, 1, 2, 12}, units \in {0, 1, 2},
        x \in {1, 72, 300}, y \in {72, 65535}, tail \in JpegTails }

JpegInputs == SeqsUpTo(JpegAlphabet, MaxJpegLen) \cup JfifInputs \cup {TextBytes, JpegBytes}

JpegInit ==
    /\ input \in JpegInputs
    /\ output = Unset
    /\ PipelineIdle
    /\ AppIdle

\* analyzeJPEGStructure(buffer) is called and returns.
AnalyzeJpeg ==
    /\ output = Unset
    /\ output' = analyzeJPEGStructure(input)
    /\ UNCHANGED <<input, pipeline, app>>

JpegNext == AnalyzeJpeg

JpegSpec == JpegInit /\ [][JpegNext]_vars

\* The buffer starts with FF D8 and a whole APP0 segment whose identifier is JFIF\0.
StartsWithJfif(bytes) ==
    /\ Len(bytes) >= 18
    /\ SubSeq(bytes, 1, 4) = <<255, 216, 255, 224>>
    /\ SubSeq(bytes, 7, 11) = JfifIdentifier

\* The identifier JFIF\0 occurs once in the buffer.
OneJfif(bytes) ==
    Cardinality({ i \in 1..(Len(bytes) - 4) : SubSeq(bytes, i, i + 4) = JfifIdentifier }) = 1

\* The two digits of a number below 100.
TwoDigits(n) == <<DecDigits[(n \div 10) + 1], DecDigits[(n % 10) + 1]>>

NotJpeg(bytes) == Len(bytes) < 2 \/ SubSeq(bytes, 1, 2) # <<255, 216>>

\* The field is not a property of the record, or is undefined.
Absent(record, field) == field \notin DOMAIN record \/ record[field] = undefined

\* The image extractor has returned for a file it takes for a JPEG.
JpegParsed ==
    /\ NormalPath
    /\ calls = <<"image">>
    /\ script.exif.kind # "throw"
    /\ IsJpegFamily(file, Get(baseMetadata))

\* C16: when the image extractor has run the JPEG structural parse on a buffer that
\* does not start with FF D8, the image metadata has no jfif and no encoding field.
C16_NoJpegBlocks ==
    JpegParsed /\ NotJpeg(buffer) =>
        /\ Absent(Result.metadata, "jfif")
        /\ Absent(Result.metadata, "encoding")

\* --------------------------------------------- failures inside extractors ----

\* C17: when parseBuffer throws, the result of the call holds the base record alone
\* as metadata (no audio field), no thumbnail and the category audio, and the call
\* has returned from its try block: no error is recorded.
C17_AudioParserThrow ==
    Done /\ calls = <<"audio">> /\ script.audio.kind = "throw" =>
        /\ promise.state = "fulfilled"
        /\ Result.metadata = Get(baseMetadata)
        /\ DOMAIN Result.metadata = BaseFields
        /\ Result.thumbnail = undefined
        /\ Result.category = "audio"
        /\ Result.errors = undefined

\* The call has returned for an audio file whose parser threw.
C17_Witness ==
    /\ Done
    /\ calls = <<"audio">>
    /\ script.audio.kind = "throw"
    /\ Result.metadata = Get(baseMetadata)
    /\ Result.category = "audio"

\* C19: a call that has not returned returns in the end, whatever its collaborators
\* answer, provided each of them answers.
C19_Returns == (pc # "done") ~> (pc = "done")

\* The call has returned after the image element signalled an error.
C19_Witness ==
    /\ Done
    /\ calls = <<"image">>
    /\ decoded.kind = "error"
    /\ promise.state = "fulfilled"

\* C20: when the image element has loaded and parseExif throws, the metadata of the
\* result holds the dimensions the image element reported.
C20_DimensionsSurviveExifThrow ==
    Done /\ calls = <<"image">> /\ decoded.kind = "load" /\ script.exif.kind = "throw" =>
        /\ "dimensions" \in DOMAIN Result.metadata
        /\ Result.metadata.dimensions = [width |-> decoded.width, height |-> decoded.height]

\* ------------------------------------------------------------------ App ----

\* The most calls of handleFilesSelect, and the most files one call is given.
MaxBatches == 2

MaxBatchSize == 2

\* What analyzeFileEnhanced resolves with, as far as App reads it: the category and
\* which of preview and thumbnail it holds.  An image (or a video) holds a preview,
\* an audio file with an embedded picture a preview and a thumbnail, any other
\* file neither.
AnalysisAnswers ==
    { [category |-> "image", preview |-> TRUE, thumbnail |-> FALSE],
      [category |-> "audio", preview |-> TRUE, thumbnail |-> TRUE],
      [category |-> "document", preview |-> FALSE, thumbnail |-> FALSE] }

\* The FileAnalysisResult of an answer; the album art is minted before the preview.
AnalysisResult(answer, handle) ==
    [category |-> answer.category,
     thumbnail |-> IF answer.thumbnail THEN Some(handle) ELSE undefined,
     preview |-> IF answer.preview
                 THEN Some(IF answer.thumbnail THEN handle + 1 ELSE handle)
                 ELSE undefined]

\* The object URLs a FileItem holds.
ItemHandles(fileItem) == fileItem.analysisResult.preview \cup fileItem.analysisResult.thumbnail

\* files.forEach(fileItem => { revoke its preview, revoke its thumbnail })
HandlesOf(list) == UNION { ItemHandles(list[k]) : k \in 1..Len(list) }

\* An effect without a cleanup function.
NoEffectCleanup(previous) == {}

\* The URLs the cleanup of the effect on [files] revokes: those of the list the
\* effect was run with.  React runs it when `files` changes and on unmount.
EffectCleanup(previous) == HandlesOf(previous)

\* A call that starts the analysis of all its files at once.
StartedAll(n) == [k \in 0..(n - 1) |-> "analyzing"]

\* The files of a call as its loop is entered: processFile is called on the first.
Started(n) == [k \in 0..(n - 1) |-> IF k = 0 THEN "analyzing" ELSE "waiting"]

\* The variables of a call of analyzeFileEnhanced other than the URL registry.
call ==
    <<file, run, pc, script, errors, warnings, buffer, checksum, detectedType, category,
      baseMetadata, decoded, src, calls, promise, first, late>>

AppInit ==
    /\ AppIdle
    /\ PipelineIdle
    /\ input = <<>>
    /\ output = Unset

\* handleFilesSelect(newFiles) up to its first await: the call keeps the selectedFile
\* and files.length of the render it was created in.
handleFilesSelect ==
    /\ mounted
    /\ Len(invocations) < MaxBatches
    /\ \E n \in 1..MaxBatchSize :
        invocations' = Append(invocations,
                              [size |-> n,
                               status |-> Started(n),
                               selectedFile |-> selectedFile,
                               length |-> Len(files)])
    /\ isProcessing' = TRUE
    /\ UNCHANGED <<files, selectedFile, mounted, nextHandle, live, call, input, output>>

\* analyzeFileEnhanced resolves for file k of call b; the loop appends the item,
\* selects it if it is the first and nothing was selected when the call was made,
\* and goes on to the next file or leaves through the finally block.  A state
\* update of an unmounted component is dropped.
AnalysisSettles ==
    \E b \in 1..Len(invocations) :
      LET inv == invocations[b] IN
      \E k \in 0..(inv.size - 1), answer \in AnalysisAnswers :
        /\ inv.status[k] = "analyzing"
        /\ LET result == AnalysisResult(answer, nextHandle)
               fileItem == [file |-> <<b, k>>, analysisResult |-> result]
               produced == [inv.status EXCEPT ![k] = "produced"]
               status == IF k + 1 < inv.size /\ produced[k + 1] = "waiting"
                         THEN [produced EXCEPT ![k + 1] = "analyzing"]
                         ELSE produced
               finished == \A j \in 0..(inv.size - 1) : status[j] = "produced"
           IN  /\ invocations' = [invocations EXCEPT ![b].status = status]
               /\ nextHandle' = nextHandle + Cardinality(ItemHandles(fileItem))
               /\ IF mounted
                  THEN /\ files' = Append(files, fileItem)
                       /\ selectedFile' = IF inv.selectedFile = {} /\ k = 0
                                          THEN {inv.length}
                                          ELSE selectedFile
                       /\ isProcessing' = IF finished THEN FALSE ELSE isProcessing
                       /\ live' = (live \ EffectCleanup(files)) \cup ItemHandles(fileItem)
                  ELSE /\ live' = live \cup ItemHandles(fileItem)
                       /\ UNCHANGED <<files, selectedFile, isProcessing>>
        /\ UNCHANGED <<mounted, call, input, output>>

\* handleSelectFile(index), from a click on an item of the list.
handleSelectFile ==
    /\ mounted
    /\ \E index \in 0..(Len(files) - 1) : selectedFile' = {index}
    /\ UNCHANGED <<files, isProcessing, invocations, mounted, nextHandle, live, call,
                   input, output>>

\* prev.filter((_, i) => i !== index)
Without(list, index) ==
    [j \in 1..(Len(list) - 1) |-> IF j <= index THEN list[j] ELSE list[j + 1]]

\* Math.min
Min(a, b) == IF a < b THEN a ELSE b

\* handleRemoveFile(index), from the remove button of an item of the list.
handleRemoveFile ==
    /\ mounted
    /\ \E index \in 0..(Len(files) - 1) :
        LET newFiles == Without(files, index)
            fileItem == files[index + 1]
        IN  /\ files' = newFiles
            /\ live' = (live \ ItemHandles(fileItem)) \ EffectCleanup(files)
            /\ selectedFile' =
                 IF selectedFile = {index}
                 THEN IF Len(newFiles) > 0 THEN {Min(index, Len(newFiles) - 1)} ELSE {}
                 ELSE IF selectedFile # {} /\ Get(selectedFile) > index
                      THEN {Get(selectedFile) - 1}
                      ELSE selectedFile
    /\ UNCHANGED <<isProcessing, invocations, mounted, nextHandle, call, input, output>>

\* handleClearAll, from the button shown while the list holds more than one file.
handleClearAll ==
    /\ mounted
    /\ Len(files) > 1
    /\ live' = (live \ HandlesOf(files)) \ EffectCleanup(files)
    /\ files' = <<>>
    /\ selectedFile' = {}
    /\ UNCHANGED <<isProcessing, invocations, mounted, nextHandle, call, input, output>>

\* The component is unmounted: the cleanup of the last effect runs.
Unmount ==
    /\ mounted
    /\ mounted' = FALSE
    /\ live' = live \ EffectCleanup(files)
    /\ UNCHANGED <<files, selectedFile, isProcessing, invocations, nextHandle, call,
                   input, output>>

AppNext ==
    \/ handleFilesSelect
    \/ AnalysisSettles
    \/ handleSelectFile
    \/ handleRemoveFile
    \/ handleClearAll
    \/ Unmount

AppSpec == AppInit /\ [][AppNext]_vars

\* The places of the list that hold files of call b, as pairs of places in order.
SameBatchPairs(b) ==
    { p \in (1..Len(files)) \X (1..Len(files)) :
        p[1] < p[2] /\ files[p[1]].file[1] = b /\ files[p[2]].file[1] = b }

\* C11: in every call of handleFilesSelect, the analysis of a file is started only
\* once the result of the file before it has been produced, at most one file of the
\* call is being analyzed, and the files of the call stand in the list in the order
\* they were submitted in.
C11_OneAtATimeInOrder ==
    \A b \in 1..Len(invocations) :
        LET inv == invocations[b] IN
        /\ \A k \in 1..(inv.size - 1) :
              inv.status[k] # "waiting" => inv.status[k - 1] = "produced"
        /\ Cardinality({ k \in 0..(inv.size - 1) : inv.status[k] = "analyzing" }) <= 1
        /\ \A p \in SameBatchPairs(b) : files[p[1]].file[2] < files[p[2]].file[2]

\* Both files of a call of two are in the list.
C11_Witness ==
    \E b \in 1..Len(invocations) :
        /\ invocations[b].size = 2
        /\ invocations[b].status[1] = "produced"
        /\ SameBatchPairs(b) # {}

\* The files of `list` that `after` no longer holds.
Dropped(list, after) ==
    { k \in 1..Len(list) : \A j \in 1..Len(after) : after[j].file # list[k].file }

\* C18: a step that takes files out of the list (a removal, a clear-all) leaves
\* none of their preview and thumbnail handles live, and the step that unmounts the
\* component leaves no handle of a listed file live.
C18_HandlesReleased ==
    [][ /\ \A k \in Dropped(files, files') : ItemHandles(files[k]) \cap live' = {}
        /\ mounted /\ ~mounted' => HandlesOf(files) \cap live' = {} ]_vars

\* The component was unmounted with a file that held a preview, which is released.
C18_Witness ==
    /\ ~mounted
    /\ \E k \in 1..Len(files) :
          /\ ItemHandles(files[k]) # {}
          /\ ItemHandles(files[k]) \cap live = {}

\* A file that held a preview and a thumbnail was removed and both are released.
C18_Removed ==
    /\ mounted
    /\ files = <<>>
    /\ nextHandle = 3
    /\ live = {}

\* ------------------------------------------------ more on the one call ----

\* C21: when a file classified image is sniffed as image/jpeg and parseExif does not
\* throw, the metadata holds the jfif and encoding blocks of the marker walk of its
\* buffer, whatever its declared type and its name.
C21_JpegContentWalked ==
    /\ NormalPath
    /\ calls = <<"image">>
    /\ script.exif.kind # "throw"
    /\ SniffedMime = Some(MimeImageJpeg)
    => /\ Result.metadata.jfif = Some(analyzeJPEGStructure(buffer).jfif)
       /\ Result.metadata.encoding = Some(analyzeJPEGStructure(buffer).encoding)

\* The file is declared application/pdf or its name ends in .pdf, in any case.
DeclaredPdf ==
    file.type = MimePdf \/ toLowerCase(SuffixOf(file.name)) = <<"p", "d", "f">>

\* C24: for a file classified document that is neither declared application/pdf nor
\* named *.pdf, PDFDocument.load is not called and the metadata is the base record;
\* for a PDF whose load throws the metadata is the base record too.
C24_PdfOnly ==
    NormalPath /\ calls = <<"document">> =>
        /\ ~DeclaredPdf => script.pdf = Unset /\ Result.metadata = Get(baseMetadata)
        /\ DeclaredPdf /\ script.pdf.kind = "throw" => Result.metadata = Get(baseMetadata)
        /\ DeclaredPdf => script.pdf # Unset

\* A document that is no PDF, though sniffed as one, has come back as the base record.
C24_Witness ==
    /\ NormalPath
    /\ calls = <<"document">>
    /\ ~DeclaredPdf
    /\ SniffedMime = Some(MimePdf)
    /\ script.pdf = Unset
    /\ Result.metadata = Get(baseMetadata)

\* The object URLs a result hands to the caller.
ResultHandles(result) == result.preview \cup result.thumbnail

\* C28: when the first call has returned, every object URL that is still live is the
\* preview or the thumbnail of its result.
C28_NoHandleLeft ==
    Done /\ run = 1 => live \subseteq ResultHandles(Result)

\* C29: a result with errors present comes from the catch block: its category is
\* 'other' and it has no preview, thumbnail or warnings; a result whose category is
\* not 'other' has errors undefined.
C29_ErrorsOnlyFromOuterCatch ==
    Done =>
        /\ IsDefined(Result.errors) =>
              /\ OuterFailure
              /\ Result.category = "other"
              /\ Result.preview = undefined
              /\ Result.thumbnail = undefined
              /\ Result.warnings = undefined
        /\ Result.category # "other" => Result.errors = undefined

\* The sniffer threw after the buffer was read, and the result holds the error.
C29_Witness ==
    /\ Done
    /\ script.fileType.kind = "throw"
    /\ IsDefined(Result.errors)
    /\ Result.category = "other"

\* C30: a file whose name ends in .txt and whose MIME type (sniffed, else declared)
\* starts with none of image/, video/, audio/, text/ is classified document, and the
\* extractor called for it is the document extractor, never the text extractor.
C30_TxtIsDocument ==
    /\ NormalPath
    /\ toLowerCase(SuffixOf(file.name)) = <<"t", "x", "t">>
    /\ MimeCategories(SniffedElseDeclared) = {}
    => /\ Result.category = "document"
       /\ calls = <<"document">>
       /\ "charset" \notin DOMAIN Result.metadata

\* x.txt without a declared type and with nothing sniffed has come back as a document.
C30_Witness ==
    /\ NormalPath
    /\ file.name = <<"x", ".", "t", "x", "t">>
    /\ file.type = <<>>
    /\ SniffedMime = undefined
    /\ Result.category = "document"
    /\ calls = <<"document">>

\* --------------------------------- the marker walk, iteration by iteration ----

\* Buffers with a segment of declared length 0 after the start-of-image marker.
ZeroLengthInputs ==
    { <<255, 216, 255, 225, 0, 0>>,
      <<255, 216, 255, 225, 0, 0, 255, 217>>,
      <<255, 216, 255, 192, 0, 0, 8, 0, 16, 0, 16, 3>> }

WalkInputs == JpegInputs \cup ZeroLengthInputs

WalkInit ==
    /\ input \in WalkInputs
    /\ output = Unset
    /\ PipelineIdle
    /\ AppIdle

\* The state of a walk: where it is, and the result it holds.
Walking(offset, result) == [state |-> "walking", offset |-> offset, result |-> result]

Returned(offset, result) == [state |-> "returned", offset |-> offset, result |-> result]

\* A walk that takes the declared length to count from the marker on.
AfterSegmentFromMarker(at, length) == at + length - 2

\* offset += length, `at` being the offset after the marker.
AfterSegment(at, length) == at + length

\* analyzeJPEGStructure up to its loop: the test of the start-of-image marker; a
\* read out of range throws into the catch block.
WalkEnter ==
    /\ output = Unset
    /\ LET result == [encoding |-> EmptyObject, jfif |-> EmptyObject]
       IN  output' = IF CanRead(input, 0, 2) /\ getUint16(input, 0) = 65496
                     THEN Walking(2, result)
                     ELSE Returned(0, result)
    /\ UNCHANGED <<input, pipeline, app>>

\* One test of the loop condition and, if it holds, one iteration of the loop.
WalkStep ==
    /\ output # Unset
    /\ output.state = "walking"
    /\ LET offset == output.offset
           result == output.result
           at == offset + 2
       IN  output' =
             IF ~(offset < Len(input) - 1) THEN Returned(offset, result)
             ELSE IF getUint16(input, offset) \div 256 # 255 THEN Returned(offset, result)
             ELSE IF ~CanRead(input, at, 2) THEN Returned(at, result)
             ELSE LET markerType == getUint16(input, offset) % 256
                      length == getUint16(input, at)
                  IN  IF markerType = 224 THEN
                          IF TextDecode(Slice(input, at + 2, at + 7)) = JfifIdentifier
                          THEN IF CanRead(input, at + 12, 2)
                               THEN Walking(AfterSegment(at, length),
                                            [result EXCEPT !.jfif = JfifBlock(input, at)])
                               ELSE Returned(at, result)
                          ELSE Walking(AfterSegment(at, length), result)
                      ELSE IF markerType = 192 THEN
                          IF CanRead(input, at + 7, 1)
                          THEN Walking(AfterSegment(at, length),
                                       [result EXCEPT !.encoding = EncodingBlock(input, at)])
                          ELSE Returned(at, result)
                      ELSE Walking(AfterSegment(at, length), result)
    /\ UNCHANGED <<input, pipeline, app>>

WalkNext == WalkEnter \/ WalkStep

\* The walk is not suspended: it has no await.
WalkSpec == WalkInit /\ [][WalkNext]_vars /\ WF_vars(WalkNext)

WalkReturned == output # Unset /\ output.state = "returned"

\* The walk, iteration by iteration, returns what analyzeJPEGStructure returns.
WalkAgrees == WalkReturned => output.result = analyzeJPEGStructure(input)

\* An iteration moves the offset on by 2 or more, or ends the walk; it ends the walk
\* only at the end of the buffer, at a word whose high byte is not FF or at a read
\* out of range, and then the result is the one held before.
WalkAdvances ==
    output # Unset /\ output.state = "walking" /\ output' # output =>
        \/ /\ output'.state = "walking"
           /\ output'.offset >= output.offset + 2
        \/ /\ output'.state = "returned"
           /\ output'.result = output.result
           /\ \/ ~(output.offset < Len(input) - 1)
              \/ input[output.offset + 1] # 255
              \/ output'.offset + 2 > Len(input)
              \/ output'.offset + 14 > Len(input) /\ input[output.offset + 2] = 224
              \/ output'.offset + 8 > Len(input) /\ input[output.offset + 2] = 192

\* C22: on every buffer the marker walk returns; until then each iteration moves the
\* offset on by at least 2, also past a segment of declared length 0, and the walk
\* ends at the end of the buffer, at a word whose high byte is not FF or at the first
\* read out of range, with the blocks parsed before.
C22_WalkTerminates == [][WalkAdvances]_vars /\ <>WalkReturned

\* The walk has returned after a segment of declared length 0, with the jfif block
\* parsed before it stopped.
C22_Witness ==
    /\ WalkReturned
    /\ Len(input) >= 18
    /\ SubSeq(input, 5, 6) = <<0, 0>>
    /\ output.offset = 4
    /\ output.result.jfif # EmptyObject

\* ------------------------------------------- the signals of the video element ----

\* C23: the record the video extractor returned is that of the first signal: base
\* alone after error, base with the duration and the pixel dimensions after
\* loadedmetadata; a later signal does not change it, and the object URL of the
\* video element is released when the call has returned.
C23_FirstSignalDecides ==
    Done /\ calls = <<"video">> =>
        LET signal == script.video
            base == Get(baseMetadata)
        IN  /\ signal.kind = "error" =>
                  /\ Result.metadata = base
                  /\ "duration" \notin DOMAIN Result.metadata
                  /\ "dimensions" \notin DOMAIN Result.metadata
            /\ signal.kind = "loadedmetadata" =>
                  /\ DOMAIN Result.metadata = DOMAIN base \cup {"duration", "dimensions"}
                  /\ \A k \in DOMAIN base : Result.metadata[k] = base[k]
                  /\ Result.metadata.duration = signal.duration
                  /\ Result.metadata.dimensions =
                        [width |-> signal.videoWidth, height |-> signal.videoHeight]
            /\ IsDefined(src)
            /\ src \cap live = {}

\* The element signalled error, the call returned base, and loadedmetadata came after.
C23_Witness ==
    /\ Done
    /\ calls = <<"video">>
    /\ script.video.kind = "error"
    /\ Len(late) = 1
    /\ late[1].kind = "loadedmetadata"
    /\ Result.metadata = Get(baseMetadata)

\* ------------------------------------------------------ more on App ----

\* C25: while the component is mounted, the preview and the thumbnail of every
\* file in the list are live.
C25_ListedHandlesLive == mounted => HandlesOf(files) \subseteq live

\* The files being analyzed, over all calls of handleFilesSelect.
InFlight ==
    { <<b, k>> \in (1..Len(invocations)) \X (0..(MaxBatchSize - 1)) :
        /\ k < invocations[b].size
        /\ invocations[b].status[k] = "analyzing" }

\* The list holds a file of another call between two files of one call.
Interleaved ==
    \E i, j, l \in 1..Len(files) :
        /\ i < j /\ j < l
        /\ files[i].file[1] = files[l].file[1]
        /\ files[j].file[1] # files[i].file[1]

\* C26: at most one file is being analyzed at any moment, over all calls of
\* handleFilesSelect, and the files of different calls are not interleaved in the list.
C26_OneAnalysisInFlight == Cardinality(InFlight) <= 1 /\ ~Interleaved

\* C27: selectedFile is null or an index of the list.
C27_SelectedIndexValid ==
    mounted => \A index \in selectedFile : 0 <= index /\ index < Len(files)

====
